---- MODULE Spec2Model ----
(***************************************************************************)
(* Verification model of rule-io-dns: the DNS check, the required-record   *)
(* set and the provider reconciliation, in both implementations kept in    *)
(* the repository (PHP: DnsChecker / RequiredRecords / DnsProvisioner; TS: *)
(* checkDns / getRequiredDnsRecords / provisionDns).                       *)
(*                                                                         *)
(* Strings are sequences of tokens (<<"rm", ".", "example", ".", "com">>), *)
(* so that concatenation, strtolower/toLowerCase, rtrim and comparison are *)
(* computed on the text and not assumed.  A "." is always a token of its   *)
(* own and no other token contains a trailing dot.                         *)
(***************************************************************************)
EXTENDS Integers, Sequences, FiniteSets, TLC

VARIABLES
    impl,       \* "php" (DnsProvisioner::provision) or "ts" (provisionDns)
    updatable,  \* the provider implements UpdatableDnsProvider
    checks,     \* checkResult.checks: the DnsRecordCheck of ns, mx, spf, dkim,
                \* dmarc
    provider,   \* the provider's records, by record name
    provider0,  \* the provider's records when the run was started
    nextId,     \* the provider's counter for the ids of created records
    pc,         \* position of the run
    required,   \* $required: the filtered required records
    idx,        \* position of the foreach over $required
    existing,   \* $existing: what getRecords returned for the current record
    delIdx,     \* position of the conflict-deletion foreach in $existing
    created,    \* $created
    deleted,    \* $deleted
    skipped,    \* $skipped
    updated,    \* $updated
    calls,      \* every provider call made, in order, with its outcome
    raised,     \* the error that reached the caller ("" when none)
    warnings,   \* $warnings of DnsChecker::check / warnings of checkDns
    allPassed,  \* checkResult.allPassed
    done,       \* the steps of the check run that have ended
    last,       \* the step that ended last: what it would have left had
                \* each failed lookup returned no records and, for a check,
                \* whether none, some or all of its lookups failed
    adapter,    \* the provider adapter and the options it was created with
    resolvedZoneId,      \* resolvedZoneId / resolvedDomainId ("" undefined)
    resolvedDomainName,  \* resolvedDomainName of domeneshop (<<>> undefined)
    zoneIdPromise,  \* zoneIdPromise / domainIdPromise: its place in promises,
                    \* 0 when undefined
    promises,   \* every promise getZoneId / getDomainInfo created, in order
    lookups,    \* number of zone / domain lookup requests sent to the API
    callers,    \* the getRecords calls: where each is and what it waits on
    run,        \* which run against the provider this is: the first or the
                \* one made after it (0 when no reconciliation is under way)
    parseArg,   \* $raw / raw: the text DmarcParser::parse / parseDmarc is given
    parseRet,   \* what it returned
    cleanArg,   \* $input / input: the text Domain::clean / cleanDomain is given
    cleanRet    \* what it returned

\* what a run is given and never changes
inputs == <<impl, updatable, checks, provider0>>

\* the provider and what only the reconciliation writes
rcVars == <<updatable, provider, provider0, nextId, idx, existing, delIdx,
            created, deleted, skipped, updated, calls, run>>

\* what only the check run writes
ckVars == <<warnings, allPassed, done, last>>

\* what only a provider adapter writes
adVars == <<adapter, resolvedZoneId, resolvedDomainName, zoneIdPromise,
            promises, lookups, callers>>

\* what only a call of a parser or of the domain normalizer writes
pfVars == <<parseArg, parseRet, cleanArg, cleanRet>>

vars == <<impl, updatable, checks, provider, provider0, nextId, pc, required,
          idx, existing, delIdx, created, deleted, skipped, updated, calls,
          raised, warnings, allPassed, done, last, adapter, resolvedZoneId,
          resolvedDomainName, zoneIdPromise, promises, lookups, callers,
          run, parseArg, parseRet, cleanArg, cleanRet>>

(***************************************************************************)
(* Bounds                                                                  *)
(***************************************************************************)
\* Most records the provider holds over all target names before a run.
MaxRecords == 2

(***************************************************************************)
(* Text                                                                    *)
(***************************************************************************)
\* Lower-case and upper-case spelling of every token that has letters.
CasePairs ==
    { <<"to", "TO">>, <<"rulemailer", "RULEMAILER">>, <<"se", "SE">>,
      <<"mail", "MAIL">>, <<"keyse", "KEYSE">>,
      <<"_domainkey", "_DOMAINKEY">>, <<"other", "OTHER">>,
      <<"example", "EXAMPLE">>, <<"net", "NET">>, <<"com", "COM">>,
      <<"v", "V">>, <<"dmarc1", "DMARC1">>, <<"p", "P">>,
      <<"none", "NONE">>, <<"reject", "REJECT">>, <<"rua", "RUA">>,
      <<"ruf", "RUF">>, <<"mailto:", "MAILTO:">>,
      <<"dmarc@rule.se", "DMARC@RULE.SE">>,
      <<"authfail@rule.se", "AUTHFAIL@RULE.SE">>,
      <<"cname", "CNAME">>, <<"txt", "TXT">>, <<"a", "A">>,
      <<"ada", "ADA">>, <<"ns", "NS">>, <<"cloudflare", "CLOUDFLARE">>,
      <<"quarantine", "QUARANTINE">>, <<"sp", "SP">>, <<"aspf", "ASPF">>,
      <<"adkim", "ADKIM">>, <<"pct", "PCT">>, <<"r", "R">>, <<"s", "S">>,
      <<"www", "WWW">>, <<"https", "HTTPS">> }

\* the lower-case spelling of every token with upper-case letters
LowerOf == [t \in { q[2] : q \in CasePairs } |->
               (CHOOSE q \in CasePairs : q[2] = t)[1]]

\* the upper-case spelling of every token with lower-case letters
UpperOf == [t \in { q[1] : q \in CasePairs } |->
               (CHOOSE q \in CasePairs : q[1] = t)[2]]

LowerTok(t) == IF t \in DOMAIN LowerOf THEN LowerOf[t] ELSE t

UpperTok(t) == IF t \in DOMAIN UpperOf THEN UpperOf[t] ELSE t

\* strtolower() / String.prototype.toLowerCase()
strtolower(s) == [i \in 1..Len(s) |-> LowerTok(s[i])]

\* strtoupper() / String.prototype.toUpperCase()
strtoupper(s) == [i \in 1..Len(s) |-> UpperTok(s[i])]

\* rtrim($s, '.'): drops every trailing dot
RECURSIVE rtrimDots(_)
rtrimDots(s) ==
    IF Len(s) > 0 /\ s[Len(s)] = "."
    THEN rtrimDots(SubSeq(s, 1, Len(s) - 1))
    ELSE s

(***************************************************************************)
(* Constants.php / constants.ts                                            *)
(***************************************************************************)
RULE_SENDING_SUBDOMAIN == <<"rm">>
RULE_CNAME_TARGET == <<"to", ".", "rulemailer", ".", "se">>
RULE_MX_HOST == <<"mail", ".", "rulemailer", ".", "se">>
RULE_DKIM_SELECTOR == <<"keyse">>
RULE_DKIM_TARGET ==
    <<"keyse", ".", "_domainkey", ".", "rulemailer", ".", "se">>
RULE_DMARC_POLICY ==
    <<"v", "=", "DMARC1", ";", " ", "p", "=", "none", ";", " ",
      "rua", "=", "mailto:", "dmarc@rule.se", ";", " ",
      "ruf", "=", "mailto:", "authfail@rule.se">>

\* Domain::clean('example.com') / cleanDomain('example.com')
Domain == <<"example", ".", "com">>

Status == {"pass", "fail", "missing"}

(***************************************************************************)
(* RequiredRecords::get / getRequiredDnsRecords                            *)
(***************************************************************************)
\* $allRecords: the three candidate records, in order
AllRecords(domain) ==
    << [type |-> "CNAME",
        name |-> RULE_SENDING_SUBDOMAIN \o <<".">> \o domain,
        value |-> RULE_CNAME_TARGET,
        purpose |-> "mx-spf"],
       [type |-> "CNAME",
        name |-> RULE_DKIM_SELECTOR \o <<".", "_domainkey", ".">> \o domain,
        value |-> RULE_DKIM_TARGET,
        purpose |-> "dkim"],
       [type |-> "TXT",
        name |-> <<"_dmarc", ".">> \o domain,
        value |-> RULE_DMARC_POLICY,
        purpose |-> "dmarc"] >>

\* mutant: the mx-spf record is kept only when mx and spf both do not pass
KeepRecord_bothUnmet(record, chk) ==
    CASE record.purpose = "mx-spf" ->
            chk.mx.status # "pass" /\ chk.spf.status # "pass"
      [] record.purpose = "dkim" -> chk.dkim.status # "pass"
      [] record.purpose = "dmarc" -> chk.dmarc.status # "pass"
      [] OTHER -> FALSE

\* the array_filter callback of RequiredRecords::get
KeepRecord(record, chk) ==
    CASE record.purpose = "mx-spf" ->
            chk.mx.status # "pass" \/ chk.spf.status # "pass"
      [] record.purpose = "dkim" -> chk.dkim.status # "pass"
      [] record.purpose = "dmarc" -> chk.dmarc.status # "pass"
      [] OTHER -> FALSE

\* mutant: the check result is not applied
RequiredRecordsGet_unfiltered(domain, chk) == AllRecords(domain)

\* RequiredRecords::get($input, $checkResult) with a check result
RequiredRecordsGet(domain, chk) ==
    LET Keep(record) == KeepRecord(record, chk)
    IN  SelectSeq(AllRecords(domain), Keep)

\* the filter callback of getRequiredDnsRecords: a switch without default
TsKeepRecord(record, chk) ==
    \/ /\ record.purpose = "mx-spf"
       /\ (chk.mx.status # "pass" \/ chk.spf.status # "pass")
    \/ /\ record.purpose = "dkim"
       /\ chk.dkim.status # "pass"
    \/ /\ record.purpose = "dmarc"
       /\ chk.dmarc.status # "pass"

\* getRequiredDnsRecords(input, checkResult) with a check result
getRequiredDnsRecords(domain, chk) ==
    LET Keep(record) == TsKeepRecord(record, chk)
    IN  SelectSeq(AllRecords(domain), Keep)

\* $required of DnsProvisioner::provision, required of provisionDns
RequiredOf(i, domain, chk) ==
    IF i = "php"
    THEN RequiredRecordsGet(domain, chk)
    ELSE getRequiredDnsRecords(domain, chk)

(***************************************************************************)
(* DnsProvisioner::provision / provisionDns                                *)
(***************************************************************************)
\* DnsProvisioner::normalizeDnsValue
normalizeDnsValue(value) == rtrimDots(strtolower(value))

\* $sameType of the PHP loop, sameType of the TS loop
SameType(ex, record) == strtoupper(<<ex.type>>) = <<record.type>>

\* mutant: only the target side is normalised
PhpSameValue_oneSided(ex, record) ==
    ex.value = normalizeDnsValue(record.value)

\* $sameValue of DnsProvisioner::provision
PhpSameValue(ex, record) ==
    normalizeDnsValue(ex.value) = normalizeDnsValue(record.value)

\* sameValue of provisionDns
TsSameValue(ex, record) == strtolower(ex.value) = strtolower(record.value)

SameValue(i, ex, record) ==
    IF i = "php" THEN PhpSameValue(ex, record) ELSE TsSameValue(ex, record)

\* mutant: only a wrong type counts as a conflict
IsConflict_typeOnly(i, ex, record) == ~SameType(ex, record)

\* the condition under which the loop deletes $ex
IsConflict(i, ex, record) ==
    ~SameType(ex, record) \/ ~SameValue(i, ex, record)

\* mutant: no fetched record is taken as the matching one
IsMatch_never(i, ex, record) == FALSE

\* the condition of the $matchingRecord search / of alreadyExists
IsMatch(i, ex, record) ==
    SameType(ex, record) /\ SameValue(i, ex, record)

\* mutant: every fetched record is deleted
NextConflict_all(i, exs, record, from) ==
    IF from <= Len(exs) THEN from ELSE 0

\* smallest position >= from of a record of exs the loop deletes, 0 if none
NextConflict(i, exs, record, from) ==
    LET C == { j \in from..Len(exs) : IsConflict(i, exs[j], record) }
    IN  IF C = {} THEN 0 ELSE CHOOSE j \in C : \A k \in C : j <= k

\* position of $matchingRecord in $existing, 0 when it is null
MatchingIndex(i, exs, record) ==
    LET M == { j \in 1..Len(exs) : IsMatch(i, exs[j], record) }
    IN  IF M = {} THEN 0 ELSE CHOOSE j \in M : \A k \in M : j <= k

\* mutant: the capability check is missing
ShouldUpdate_noCapabilityCheck(i, upd, m) == i = "php" /\ m.proxied = "true"

\* the condition under which provision calls updateRecord
ShouldUpdate(i, upd, m) == i = "php" /\ m.proxied = "true" /\ upd

\* mutant: every candidate record is put in $skipped at the start
InitialSkipped_all(all, req) == all

\* the first foreach: records of $allRecords that are not in $required
InitialSkipped(all, req) ==
    LET NotRequired(record) ==
            ~\E k \in 1..Len(req) :
                req[k].name = record.name /\ req[k].type = record.type
    IN  SelectSeq(all, NotRequired)

\* errors a provider call can raise
ProviderErrors == {"ProviderError"}

\* a provider call: operation, record name, record id (0 for getRecords),
\* the fields passed to updateRecord, and the error it raised ("" if none)
Call(op, name, id, data, err) ==
    [op |-> op, name |-> name, id |-> id, data |-> data, err |-> err]

\* mutant: the deletion is only applied when the run returns
ProviderDelete_deferred(p, id) == p

\* the provider after deleteRecord(id)
ProviderDelete(p, id) ==
    LET Other(r) == r.id # id
    IN  [n \in DOMAIN p |-> SelectSeq(p[n], Other)]

\* mutant: updateRecord leaves the record as it was
ProviderUnproxy_none(p, id) == p

\* the provider after updateRecord(id, ['proxied' => false])
ProviderUnproxy(p, id) ==
    [n \in DOMAIN p |->
        [j \in 1..Len(p[n]) |->
            IF p[n][j].id = id
            THEN [p[n][j] EXCEPT !.proxied = "false"]
            ELSE p[n][j]]]

(***************************************************************************)
(* Initial states: a check result is in, the provider holds up to          *)
(* MaxRecords records at the target names                                  *)
(***************************************************************************)
\* values a provider record can carry at the name of target t
OtherValue(t) ==
    IF t.type = "CNAME"
    THEN <<"other", ".", "example", ".", "net">>
    ELSE <<"v", "=", "DMARC1", ";", " ", "p", "=", "reject">>

\* the other spelling of a value: upper case, or lower case where the
\* target itself has upper-case letters
Respell(v) == IF strtoupper(v) = v THEN strtolower(v) ELSE strtoupper(v)

\* what a record at the name of target t can look like (type, value, proxied)
Kinds(i, t) ==
    { [type |-> t.type, value |-> t.value, proxied |-> "null"],
      [type |-> LowerTok(t.type), value |-> Respell(t.value),
       proxied |-> "null"],
      [type |-> t.type, value |-> t.value \o <<".">>, proxied |-> "null"],
      [type |-> "A", value |-> <<"1.2.3.4">>, proxied |-> "null"],
      [type |-> t.type, value |-> OtherValue(t), proxied |-> "null"] }
    \cup (IF i = "php"
          THEN { [type |-> t.type, value |-> t.value, proxied |-> "true"] }
          ELSE {})

TargetIndex == 1..Len(AllRecords(Domain))

KindsAt(i, k) == Kinds(i, AllRecords(Domain)[k])

\* record lists per target, at most MaxRecords records in all
Layouts(i) ==
    UNION { { <<a, b, c>> : a \in [1..l[1] -> KindsAt(i, 1)],
                            b \in [1..l[2] -> KindsAt(i, 2)],
                            c \in [1..l[3] -> KindsAt(i, 3)] } :
            l \in { m \in [TargetIndex -> 0..MaxRecords] :
                        m[1] + m[2] + m[3] <= MaxRecords } }

\* the provider state of a layout: ids are 10 * target + position
ProviderOf(f) ==
    [n \in { AllRecords(Domain)[k].name : k \in TargetIndex } |->
        LET k == CHOOSE k \in TargetIndex : AllRecords(Domain)[k].name = n
        IN  [j \in 1..Len(f[k]) |->
                [id |-> 10 * k + j,
                 type |-> f[k][j].type,
                 name |-> n,
                 value |-> f[k][j].value,
                 proxied |-> f[k][j].proxied]]]

\* a DnsRecordCheck of which only the status is set
StatusOnly(s) ==
    [status |-> s, expected |-> <<>>, actual |-> <<>>, existing |-> <<>>]

\* every combination of statuses a check result can carry (ns is never
\* "fail")
CheckInputs ==
    { [ns |-> StatusOnly(c.ns), mx |-> StatusOnly(c.mx),
       spf |-> StatusOnly(c.spf), dkim |-> StatusOnly(c.dkim),
       dmarc |-> StatusOnly(c.dmarc)] :
      c \in [ns : {"pass", "missing"}, mx : Status, spf : Status,
             dkim : Status, dmarc : Status] }

\* the check run's variables when no check run is under way
NoStep == [step |-> "", failed |-> "none", check |-> StatusOnly(""),
           warnings |-> <<>>, seen |-> <<>>]

CheckIdle ==
    /\ warnings = <<>>
    /\ allPassed = FALSE
    /\ done = {}
    /\ last = NoStep

\* the adapter's variables when no adapter is in use
AdapterIdle ==
    /\ adapter = [kind |-> "", zoneId |-> "", domain |-> FALSE]
    /\ resolvedZoneId = ""
    /\ resolvedDomainName = <<>>
    /\ zoneIdPromise = 0
    /\ promises = <<>>
    /\ lookups = 0
    /\ callers = <<>>

\* the variables of the pure functions when none is being applied
PureIdle ==
    /\ parseArg = <<>>
    /\ parseRet = [valid |-> FALSE]
    /\ cleanArg = <<>>
    /\ cleanRet = <<>>

\* check results a reconciliation run starts from: ns passes and each of
\* mx, spf, dkim and dmarc passes or is missing
ReconcileChecks ==
    { c \in CheckInputs :
        /\ c.ns.status = "pass"
        /\ \A k \in {"mx", "spf", "dkim", "dmarc"} : c[k].status # "fail" }

\* the reconciliation's variables when no reconciliation is under way
ReconcileIdle ==
    /\ updatable = FALSE
    /\ provider = ProviderOf(<< <<>>, <<>>, <<>> >>)
    /\ provider0 = provider
    /\ nextId = 1
    /\ idx = 0
    /\ existing = <<>>
    /\ delIdx = 0
    /\ created = <<>>
    /\ deleted = <<>>
    /\ skipped = <<>>
    /\ updated = <<>>
    /\ calls = <<>>
    /\ run = 0

Init ==
    /\ impl \in {"php", "ts"}
    /\ updatable \in (IF impl = "php" THEN BOOLEAN ELSE {FALSE})
    /\ checks \in ReconcileChecks
    /\ provider \in { ProviderOf(f) : f \in Layouts(impl) }
    /\ provider0 = provider
    /\ nextId = 1
    /\ pc = "start"
    /\ required = <<>>
    /\ idx = 0
    /\ existing = <<>>
    /\ delIdx = 0
    /\ created = <<>>
    /\ deleted = <<>>
    /\ skipped = <<>>
    /\ updated = <<>>
    /\ calls = <<>>
    /\ run = 1
    /\ raised = ""
    /\ CheckIdle
    /\ AdapterIdle
    /\ PureIdle

\* mutant: the unmet targets are taken from the last to the first
Record_reversed == required[Len(required) + 1 - idx]

\* the record of the current pass of the foreach over $required
Record == required[idx]

\* mutant: the error is caught and another one is raised in its place
Propagate_wrapped(err) ==
    /\ pc' = "raised"
    /\ raised' = "ProvisionFailed"

\* a provider error is not caught: it leaves provision() as it was raised
Propagate(err) ==
    /\ pc' = "raised"
    /\ raised' = err

\* where the run goes after the current record is settled
Advance ==
    /\ idx' = idx + 1
    /\ pc' = IF idx + 1 > Len(required) THEN "done" ELSE "fetch"
    /\ existing' = <<>>
    /\ delIdx' = 0

\* checkResult is in: compute $required and pre-fill $skipped
Start ==
    /\ pc = "start"
    /\ required' = RequiredOf(impl, Domain, checks)
    /\ skipped' = InitialSkipped(AllRecords(Domain), required')
    /\ idx' = 1
    /\ pc' = IF Len(required') = 0 THEN "done" ELSE "fetch"
    /\ UNCHANGED <<inputs, provider, nextId, existing,
                   delIdx, created, deleted, updated, calls, raised>>
    /\ UNCHANGED <<ckVars, adVars, pfVars, run>>

\* $existing = $provider->getRecords($record->name)
GetRecords ==
    /\ pc = "fetch"
    /\ \E err \in ProviderErrors \cup {""} :
        /\ calls' = Append(calls, Call("getRecords", Record.name, 0, <<>>, err))
        /\ IF err # ""
           THEN /\ Propagate(err)
                /\ UNCHANGED <<existing, delIdx>>
           ELSE /\ existing' = provider[Record.name]
                /\ delIdx' = NextConflict(impl, existing', Record, 1)
                /\ pc' = IF delIdx' = 0 THEN "decide" ELSE "delete"
                /\ raised' = raised
    /\ UNCHANGED <<inputs, provider, nextId, required, idx,
                   created, deleted, skipped, updated>>
    /\ UNCHANGED <<ckVars, adVars, pfVars, run>>

\* $provider->deleteRecord($ex->id); $deleted[] = $ex
DeleteRecord ==
    /\ pc = "delete"
    /\ LET ex == existing[delIdx] IN
       \E err \in ProviderErrors \cup {""} :
        /\ calls' = Append(calls, Call("deleteRecord", ex.name, ex.id, <<>>, err))
        /\ IF err # ""
           THEN /\ Propagate(err)
                /\ UNCHANGED <<provider, deleted, delIdx>>
           ELSE /\ provider' = ProviderDelete(provider, ex.id)
                /\ deleted' = Append(deleted, ex)
                /\ delIdx' = NextConflict(impl, existing, Record, delIdx + 1)
                /\ pc' = IF delIdx' = 0 THEN "decide" ELSE "delete"
                /\ raised' = raised
    /\ UNCHANGED <<inputs, nextId, required, idx, existing,
                   created, skipped, updated>>
    /\ UNCHANGED <<ckVars, adVars, pfVars, run>>

\* $matchingRecord === null: createRecord, $created[] = $record
CreateRecord ==
    /\ pc = "decide"
    /\ MatchingIndex(impl, existing, Record) = 0
    /\ \E err \in ProviderErrors \cup {""} :
        /\ calls' = Append(calls,
                        Call("createRecord", Record.name, 100 + nextId, <<>>,
                             err))
        /\ IF err # ""
           THEN /\ Propagate(err)
                /\ UNCHANGED <<provider, nextId, created, idx, existing,
                               delIdx>>
           ELSE /\ provider' =
                     [provider EXCEPT ![Record.name] =
                         Append(@, [id |-> 100 + nextId,
                                    type |-> Record.type,
                                    name |-> Record.name,
                                    value |-> Record.value,
                                    proxied |-> "null"])]
                /\ nextId' = nextId + 1
                /\ created' = Append(created, Record)
                /\ raised' = raised
                /\ Advance
    /\ UNCHANGED <<inputs, required, deleted, skipped,
                   updated>>
    /\ UNCHANGED <<ckVars, adVars, pfVars, run>>

\* $matchingRecord proxied on an updatable provider: updateRecord, then skip
UpdateRecord ==
    /\ pc = "decide"
    /\ MatchingIndex(impl, existing, Record) # 0
    /\ LET m == existing[MatchingIndex(impl, existing, Record)] IN
       /\ ShouldUpdate(impl, updatable, m)
       /\ \E err \in ProviderErrors \cup {""} :
           /\ calls' = Append(calls, Call("updateRecord", m.name, m.id,
                                       <<"proxied", "=", "false">>, err))
           /\ IF err # ""
              THEN /\ Propagate(err)
                   /\ UNCHANGED <<provider, updated, skipped, idx, existing,
                                  delIdx>>
              ELSE /\ provider' = ProviderUnproxy(provider, m.id)
                   /\ updated' = Append(updated, [m EXCEPT !.proxied = "false"])
                   /\ skipped' = Append(skipped, Record)
                   /\ raised' = raised
                   /\ Advance
    /\ UNCHANGED <<inputs, nextId, required, created,
                   deleted>>
    /\ UNCHANGED <<ckVars, adVars, pfVars, run>>

\* $matchingRecord found and no update due: $skipped[] = $record
SkipExisting ==
    /\ pc = "decide"
    /\ MatchingIndex(impl, existing, Record) # 0
    /\ ~ShouldUpdate(impl, updatable,
                     existing[MatchingIndex(impl, existing, Record)])
    /\ skipped' = Append(skipped, Record)
    /\ Advance
    /\ UNCHANGED <<inputs, provider, nextId, required,
                   created, deleted, updated, calls, raised>>
    /\ UNCHANGED <<ckVars, adVars, pfVars, run>>

\* provision() is called again, with the same check result, against the
\* provider as the completed run left it
Rerun ==
    /\ pc = "done"
    /\ run = 1
    /\ run' = 2
    /\ provider0' = provider
    /\ pc' = "start"
    /\ required' = <<>>
    /\ idx' = 0
    /\ existing' = <<>>
    /\ delIdx' = 0
    /\ created' = <<>>
    /\ deleted' = <<>>
    /\ skipped' = <<>>
    /\ updated' = <<>>
    /\ calls' = <<>>
    /\ UNCHANGED <<impl, updatable, checks, provider, nextId, raised>>
    /\ UNCHANGED <<ckVars, adVars, pfVars>>

Next ==
    \/ Start
    \/ GetRecords
    \/ DeleteRecord
    \/ CreateRecord
    \/ UpdateRecord
    \/ SkipExisting

Spec == Init /\ [][Next]_vars

\* a run and, when it has completed, a second run against the same provider
NextRerun ==
    \/ Start
    \/ GetRecords
    \/ DeleteRecord
    \/ CreateRecord
    \/ UpdateRecord
    \/ SkipExisting
    \/ Rerun

SpecRerun == Init /\ [][NextRerun]_vars

(***************************************************************************)
(* Properties of the reconciliation                                        *)
(***************************************************************************)
Targets == AllRecords(Domain)

InSeq(x, s) == \E n \in 1..Len(s) : s[n] = x

\* the purpose of target t is not satisfied by the check result
Unmet(t) ==
    \/ /\ t.purpose = "mx-spf"
       /\ ~(checks.mx.status = "pass" /\ checks.spf.status = "pass")
    \/ t.purpose = "dkim" /\ checks.dkim.status # "pass"
    \/ t.purpose = "dmarc" /\ checks.dmarc.status # "pass"

AllPass ==
    /\ checks.mx.status = "pass"
    /\ checks.spf.status = "pass"
    /\ checks.dkim.status = "pass"
    /\ checks.dmarc.status = "pass"

AllMissing ==
    /\ checks.mx.status = "missing"
    /\ checks.spf.status = "missing"
    /\ checks.dkim.status = "missing"
    /\ checks.dmarc.status = "missing"

\* s without one trailing dot
StripDot(s) ==
    IF Len(s) > 0 /\ s[Len(s)] = "." THEN SubSeq(s, 1, Len(s) - 1) ELSE s

\* the values are equal up to letter case and a trailing dot
EquivalentValue(v, w) ==
    StripDot(strtolower(v)) = StripDot(strtolower(w))

\* record r has the type and value of target t, up to case and trailing dot
Equivalent(r, t) ==
    /\ UpperTok(r.type) = t.type
    /\ EquivalentValue(r.value, t.value)

\* record r carries exactly the type and value of target t
HasTarget(r, t) == r.type = t.type /\ r.value = t.value

\* the records the provider held at the name of target t
Held(t) == provider0[t.name]

\* first position of Held(t) that is equivalent to t, 0 if none
FirstEquivalent(t) ==
    LET M == { j \in 1..Len(Held(t)) : Equivalent(Held(t)[j], t) }
    IN  IF M = {} THEN 0 ELSE CHOOSE j \in M : \A k \in M : j <= k

\* C1: reconciling against a provider that already holds, at every unmet
\* target name, records with the target's type and value and nothing else
\* makes no createRecord or deleteRecord call, leaves created and deleted
\* empty and ends with every target in skipped.
StateMatchesRequired ==
    \A k \in TargetIndex :
        Unmet(Targets[k]) =>
            /\ Len(Held(Targets[k])) >= 1
            /\ \A j \in 1..Len(Held(Targets[k])) :
                   HasTarget(Held(Targets[k])[j], Targets[k])

C3_ErrorAborts ==
    /\ \A n \in 1..Len(calls) :
           calls[n].err # "" =>
               /\ n = Len(calls)
               /\ pc = "raised"
               /\ raised = calls[n].err
    /\ pc = "raised" => (Len(calls) > 0 /\ calls[Len(calls)].err # "")
    /\ raised # "" => pc = "raised"

C3_Witness ==
    /\ pc = "raised"
    /\ raised \in ProviderErrors
    /\ Len(deleted) >= 1
    /\ idx < Len(required)

\* C4: no provider call is made at the name of a target whose purpose the
\* check reports as satisfied, the provider's records there stay as they
\* were and the target is put in skipped; when mx, spf, dkim and dmarc all
\* pass there is no provider call and skipped holds the 3 targets.
C4_SatisfiedUntouched ==
    /\ \A n \in 1..Len(calls) :
           \E k \in TargetIndex :
               Unmet(Targets[k]) /\ calls[n].name = Targets[k].name
    /\ \A k \in TargetIndex :
           ~Unmet(Targets[k]) =>
               /\ provider[Targets[k].name] = provider0[Targets[k].name]
               /\ pc # "start" => InSeq(Targets[k], skipped)
    /\ AllPass =>
           /\ calls = <<>>
           /\ pc \in {"start", "done"}
           /\ pc = "done" => skipped = Targets

C4_Witness ==
    /\ pc = "done"
    /\ AllPass
    /\ skipped = Targets
    /\ \E k \in TargetIndex : Len(Held(Targets[k])) = 2

\* C5 as stated: a record of the target's type whose value differs from the
\* target value only by letter case and/or a trailing dot is never deleted,
\* and no replacement is created for its target.
C5_ValueEquivalence ==
    \A k \in TargetIndex :
        Unmet(Targets[k]) =>
            \A j \in 1..Len(Held(Targets[k])) :
                ( /\ Held(Targets[k])[j].type = Targets[k].type
                  /\ EquivalentValue(Held(Targets[k])[j].value,
                                     Targets[k].value) ) =>
                    /\ ~InSeq(Held(Targets[k])[j], deleted)
                    /\ ~InSeq(Targets[k], created)
                    /\ \A n \in 1..Len(calls) :
                           calls[n].op = "deleteRecord" =>
                               calls[n].id # Held(Targets[k])[j].id

\* C6: in DnsProvisioner::provision, updateRecord is called for an unmet
\* target exactly when the matching record found for it is proxied and the
\* provider is updatable; the call passes proxied = false, its result is in
\* updated, and a target with a matching record is skipped, never created.
UpdateCallsAt(name) ==
    { n \in 1..Len(calls) :
        calls[n].op = "updateRecord" /\ calls[n].name = name }

C6_UpdateProxied ==
    impl = "php" =>
        /\ \A n \in 1..Len(calls) :
               calls[n].op = "updateRecord" =>
                   calls[n].data = <<"proxied", "=", "false">>
        /\ Len(updated) =
               Cardinality({ n \in 1..Len(calls) :
                   calls[n].op = "updateRecord" /\ calls[n].err = "" })
        /\ pc = "done" =>
            \A k \in TargetIndex :
                Unmet(Targets[k]) =>
                    IF FirstEquivalent(Targets[k]) = 0
                    THEN UpdateCallsAt(Targets[k].name) = {}
                    ELSE LET m == Held(Targets[k])[FirstEquivalent(Targets[k])]
                         IN  /\ InSeq(Targets[k], skipped)
                             /\ ~InSeq(Targets[k], created)
                             /\ IF m.proxied = "true" /\ updatable
                                THEN /\ Cardinality(
                                         UpdateCallsAt(Targets[k].name)) = 1
                                     /\ \A n \in UpdateCallsAt(Targets[k].name) :
                                            calls[n].id = m.id
                                     /\ InSeq([m EXCEPT !.proxied = "false"],
                                              updated)
                                ELSE UpdateCallsAt(Targets[k].name) = {}

C6_Witness ==
    /\ impl = "php"
    /\ pc = "done"
    /\ Len(updated) = 1
    /\ \E k \in TargetIndex :
          /\ Unmet(Targets[k])
          /\ Len(Held(Targets[k])) = 2
          /\ InSeq(Targets[k], skipped)

\* C8 as stated: for example.com with all checks missing and an empty
\* provider, exactly three records are created, the third being the DMARC
\* policy as TXT at _dmarc.rm.example.com.
ExpectedCreated ==
    << [type |-> "CNAME",
        name |-> <<"rm", ".", "example", ".", "com">>,
        value |-> <<"to", ".", "rulemailer", ".", "se">>],
       [type |-> "CNAME",
        name |-> <<"keyse", ".", "_domainkey", ".", "example", ".", "com">>,
        value |-> <<"keyse", ".", "_domainkey", ".", "rulemailer", ".",
                    "se">>],
       [type |-> "TXT",
        name |-> <<"_dmarc", ".", "rm", ".", "example", ".", "com">>,
        value |-> <<"v", "=", "DMARC1", ";", " ", "p", "=", "none", ";", " ",
                    "rua", "=", "mailto:", "dmarc@rule.se", ";", " ",
                    "ruf", "=", "mailto:", "authfail@rule.se">>] >>

C8_ThreeCreated ==
    ( /\ pc = "done"
      /\ AllMissing
      /\ \A k \in TargetIndex : Held(Targets[k]) = <<>> ) =>
        /\ Len(created) = 3
        /\ \A k \in 1..3 :
               /\ created[k].type = ExpectedCreated[k].type
               /\ created[k].name = ExpectedCreated[k].name
               /\ created[k].value = ExpectedCreated[k].value

(***************************************************************************)
(* The required-record set on its own: RequiredRecords::get and            *)
(* getRequiredDnsRecords applied to every combination of check statuses    *)
(***************************************************************************)
InitRequired ==
    /\ impl \in {"php", "ts"}
    /\ checks \in CheckInputs
    /\ pc = "filter"
    /\ required = <<>>
    /\ raised = ""
    /\ ReconcileIdle
    /\ CheckIdle
    /\ AdapterIdle
    /\ PureIdle

\* RequiredRecords::get($input, $checkResult) /
\* getRequiredDnsRecords(input, checkResult)
GetRequired ==
    /\ pc = "filter"
    /\ required' = RequiredOf(impl, Domain, checks)
    /\ pc' = "filtered"
    /\ UNCHANGED <<impl, checks, raised, rcVars, ckVars, adVars, pfVars>>

NextRequired == GetRequired

SpecRequired == InitRequired /\ [][NextRequired]_vars

\* C7: for every combination of statuses of mx, spf, dkim and dmarc the
\* filtered required set is exactly the targets whose purpose is unmet, in
\* the order of the three targets: mx-spf iff mx or spf does not pass, dkim
\* iff dkim does not pass, dmarc iff dmarc does not pass; the ns status has
\* no part in it.
C7_FilterCorrect ==
    pc = "filtered" =>
        /\ required = SelectSeq(Targets, Unmet)
        /\ \A s \in {"pass", "missing"} :
               RequiredOf(impl, Domain, [checks EXCEPT !.ns = StatusOnly(s)])
                   = required

C7_Witness ==
    /\ pc = "filtered"
    /\ checks.ns.status = "missing"
    /\ checks.mx.status = "pass"
    /\ checks.spf.status = "fail"
    /\ checks.dkim.status = "pass"
    /\ checks.dmarc.status = "missing"
    /\ Len(required) = 2
    /\ required[1].purpose = "mx-spf"
    /\ required[2].purpose = "dmarc"

(***************************************************************************)
(* More text: trim, explode, prefix and suffix tests.  A blank, ";", "=",  *)
(* "," and "mailto:" are tokens of their own; "v=DMARC1" and "v=spf1" are  *)
(* the three tokens "v", "=", "DMARC1" / "spf1", and no token has another  *)
(* token of the texts used here as a proper part.                          *)
(***************************************************************************)
RECURSIVE ltrim(_)
ltrim(s) == IF Len(s) > 0 /\ s[1] = " " THEN ltrim(Tail(s)) ELSE s

RECURSIVE rtrimBlanks(_)
rtrimBlanks(s) ==
    IF Len(s) > 0 /\ s[Len(s)] = " "
    THEN rtrimBlanks(SubSeq(s, 1, Len(s) - 1))
    ELSE s

\* trim() / String.prototype.trim()
trim(s) == ltrim(rtrimBlanks(s))

\* strpos() / indexOf() + 1: position of the first tok in s, 0 if none
IndexOf(s, tok) ==
    LET P == { k \in 1..Len(s) : s[k] = tok }
    IN  IF P = {} THEN 0 ELSE CHOOSE k \in P : \A j \in P : k <= j

\* explode(sep, s) / s.split(sep)
RECURSIVE explode(_, _)
explode(sep, s) ==
    LET k == IndexOf(s, sep)
    IN  IF k = 0
        THEN <<s>>
        ELSE <<SubSeq(s, 1, k - 1)>> \o explode(sep, SubSeq(s, k + 1, Len(s)))

\* str_starts_with() / startsWith()
StartsWith(s, prefix) ==
    Len(s) >= Len(prefix) /\ SubSeq(s, 1, Len(prefix)) = prefix

\* the test of preg_match('/<suffix>$/', s)
EndsWith(s, suffix) ==
    /\ Len(s) >= Len(suffix)
    /\ SubSeq(s, Len(s) - Len(suffix) + 1, Len(s)) = suffix

\* str_contains() / includes() for a needle that is one token
Contains(s, tok) == \E k \in 1..Len(s) : s[k] = tok

\* chunks.join(''); the 'txt' entry of a dns_get_record TXT row
RECURSIVE Join(_)
Join(chunks) ==
    IF Len(chunks) = 0 THEN <<>> ELSE Head(chunks) \o Join(Tail(chunks))

(***************************************************************************)
(* DmarcParser::parse / parseDmarc                                         *)
(***************************************************************************)
Policies == { <<"none">>, <<"quarantine">>, <<"reject">> }

Alignments == { <<"r">>, <<"s">> }

\* the numbers the pct values used here stand for: the digit strings
\* ctype_digit accepts, and what Number() makes of the others
DigitStrings == ("0" :> 0) @@ ("50" :> 50) @@ ("100" :> 100) @@ ("101" :> 101)

JsNumbers == DigitStrings @@ ("-5" :> (0 - 5)) @@ ("1e2" :> 100)

\* the parts of the record that hold a "="
TagParts(raw) ==
    LET HasEq(part) == IndexOf(part, "=") # 0
    IN  SelectSeq(explode(";", trim(raw)), HasEq)

\* $key: the lower-cased, trimmed text before the first "="
TagKey(part) == strtolower(trim(SubSeq(part, 1, IndexOf(part, "=") - 1)))

\* $value: the trimmed text after the first "="
TagValue(part) == trim(SubSeq(part, IndexOf(part, "=") + 1, Len(part)))

\* isset($tags[$key]) / tags.get(key) !== undefined
HasTag(raw, key) ==
    \E n \in 1..Len(TagParts(raw)) : TagKey(TagParts(raw)[n]) = <<key>>

\* $tags[$key] / tags.get(key): the value of the last part with that key
\* (<<>> when there is none)
Tag(raw, key) ==
    LET parts == TagParts(raw)
        N == { n \in 1..Len(parts) : TagKey(parts[n]) = <<key>> }
    IN  IF N = {}
        THEN <<>>
        ELSE TagValue(parts[CHOOSE n \in N : \A m \in N : m <= n])

\* parseMailtoList: the addresses of the mailto: URIs of a comma list
parseMailtoList(value) ==
    LET uris == explode(",", value)
        trimmed == [k \in 1..Len(uris) |-> trim(uris[k])]
        IsMailto(uri) == StartsWith(uri, <<"mailto:">>)
        kept == SelectSeq(trimmed, IsMailto)
    IN  [k \in 1..Len(kept) |-> Tail(kept[k])]

\* a field that is null / absent
None == [some |-> FALSE, list |-> <<>>, num |-> 0]

SomeList(l) == [some |-> TRUE, list |-> l, num |-> 0]

SomeNum(n) == [some |-> TRUE, list |-> <<>>, num |-> n]

\* the result null; p, sp, aspf and adkim are <<>> when null / absent
NoDmarc == [valid |-> FALSE, p |-> <<>>, sp |-> <<>>, aspf |-> <<>>,
            adkim |-> <<>>, rua |-> None, ruf |-> None, pct |-> None]

\* DmarcParser::parse
DmarcParser_parse(raw) ==
    LET p == strtolower(Tag(raw, "p"))
        sp == strtolower(Tag(raw, "sp"))
        aspf == strtolower(Tag(raw, "aspf"))
        adkim == strtolower(Tag(raw, "adkim"))
        rua == parseMailtoList(Tag(raw, "rua"))
        ruf == parseMailtoList(Tag(raw, "ruf"))
        pct == Tag(raw, "pct")
    IN  IF ~StartsWith(trim(raw), <<"v", "=", "DMARC1">>) THEN NoDmarc
        ELSE IF p \notin Policies THEN NoDmarc
        ELSE [valid |-> TRUE,
              p |-> p,
              sp |-> IF HasTag(raw, "sp") /\ sp \in Policies
                     THEN sp ELSE <<>>,
              aspf |-> IF HasTag(raw, "aspf") /\ aspf \in Alignments
                       THEN aspf ELSE <<>>,
              adkim |-> IF HasTag(raw, "adkim") /\ adkim \in Alignments
                        THEN adkim ELSE <<>>,
              rua |-> IF HasTag(raw, "rua") /\ Len(rua) > 0
                      THEN SomeList(rua) ELSE None,
              ruf |-> IF HasTag(raw, "ruf") /\ Len(ruf) > 0
                      THEN SomeList(ruf) ELSE None,
              pct |-> IF /\ HasTag(raw, "pct")
                         /\ Len(pct) = 1
                         /\ pct[1] \in DOMAIN DigitStrings
                         /\ DigitStrings[pct[1]] >= 0
                         /\ DigitStrings[pct[1]] <= 100
                      THEN SomeNum(DigitStrings[pct[1]]) ELSE None]

\* parseDmarc
parseDmarc(raw) ==
    LET p == Tag(raw, "p")
        sp == Tag(raw, "sp")
        aspf == Tag(raw, "aspf")
        adkim == Tag(raw, "adkim")
        rua == Tag(raw, "rua")
        ruf == Tag(raw, "ruf")
        pct == Tag(raw, "pct")
    IN  IF ~StartsWith(trim(raw), <<"v", "=", "DMARC1">>) THEN NoDmarc
        ELSE IF p \notin Policies THEN NoDmarc
        ELSE [valid |-> TRUE,
              p |-> p,
              sp |-> IF sp \in Policies THEN sp ELSE <<>>,
              aspf |-> IF aspf \in Alignments THEN aspf ELSE <<>>,
              adkim |-> IF adkim \in Alignments THEN adkim ELSE <<>>,
              rua |-> IF Len(rua) > 0
                      THEN SomeList(parseMailtoList(rua)) ELSE None,
              ruf |-> IF Len(ruf) > 0
                      THEN SomeList(parseMailtoList(ruf)) ELSE None,
              pct |-> IF ~HasTag(raw, "pct") THEN None
                      ELSE IF Len(pct) = 0 THEN SomeNum(0)
                      ELSE IF Len(pct) = 1 /\ pct[1] \in DOMAIN JsNumbers
                      THEN SomeNum(JsNumbers[pct[1]])
                      ELSE None]

(***************************************************************************)
(* DnsChecker::check / checkDns: the resolver                              *)
(***************************************************************************)
\* Longest answer (number of records) a lookup returns.
MaxAnswers == 2

\* The outcome of a lookup is [err, recs].  DnsResolver::getRecord returns
\* false (err = "false"), an empty array or rows; it throws nothing.  The
\* dns.promises resolvers reject with ENODATA / ENOTFOUND when the name has
\* no such records and with another code (ETIMEOUT here) when the lookup
\* failed, and resolve to the records otherwise, never to an empty array.
Failure(i) ==
    [err |-> IF i = "php" THEN "false" ELSE "ETIMEOUT", recs |-> <<>>]

NoRecords(i) ==
    [err |-> IF i = "php" THEN "" ELSE "ENODATA", recs |-> <<>>]

\* answers of one to MaxAnswers records of the given kinds
Answers(kinds) ==
    UNION { { [err |-> "", recs |-> r] : r \in [1..n -> kinds] } :
            n \in 1..MaxAnswers }

Outcomes(i, kinds) == {Failure(i), NoRecords(i)} \cup Answers(kinds)

\* what a lookup that failed would have been had it found no records
AsNoRecords(i, o) == IF o = Failure(i) THEN NoRecords(i) ELSE o

AllAsNoRecords(i, outs) ==
    [k \in 1..Len(outs) |-> AsNoRecords(i, outs[k])]

\* how many of the lookups made failed: none, some or all of them
FailedOf(i, outs) ==
    LET F == { k \in 1..Len(outs) : outs[k] = Failure(i) }
    IN  IF F = {} THEN "none"
        ELSE IF Cardinality(F) = Len(outs) THEN "all"
        ELSE "some"

\* the other spelling of a host name: upper case, with the root dot
Fqdn(host) == strtoupper(host) \o <<".">>

\* rows of NS, MX and CNAME answers carry the host as target (the exchange
\* of an MX row of dns.promises)
HostKinds(host, other) ==
    { [target |-> host], [target |-> Fqdn(host)], [target |-> other] }

NsKinds ==
    { [target |-> Fqdn(<<"ada", ".", "ns", ".", "cloudflare", ".", "com">>)],
      [target |-> <<"ns1", ".", "example", ".", "net">>] }

MxKinds == HostKinds(RULE_MX_HOST, <<"mx", ".", "example", ".", "net">>)

CnameKinds ==
    HostKinds(RULE_CNAME_TARGET, <<"other", ".", "example", ".", "net">>)

DkimKinds ==
    HostKinds(RULE_DKIM_TARGET, <<"other", ".", "example", ".", "net">>)

\* a TXT row: the text in chunks, cut after its second token
TxtRow(text) ==
    [chunks |-> IF Len(text) > 2
                THEN <<SubSeq(text, 1, 2), SubSeq(text, 3, Len(text))>>
                ELSE <<text>>]

SpfKinds ==
    { TxtRow(<<"v", "=", "spf1", " ", "include:", "spf", ".", "rulemailer",
               ".", "se", " ", "~all">>),
      TxtRow(<<"v", "=", "spf1", " ", "-all">>),
      TxtRow(<<"site-verification">>) }

DmarcKinds ==
    { TxtRow(<<"v", "=", "DMARC1", ";", " ", "p", "=", "reject", ";", " ",
               "aspf", "=", "s", ";", " ", "adkim", "=", "s">>),
      TxtRow(<<"v", "=", "DMARC1", ";", " ", "P", "=", "QUARANTINE", ";",
               "ADKIM", "=", "S">>),
      TxtRow(<<"v", "=", "DMARC1", ";", " ", "aspf", "=", "s">>),
      TxtRow(<<"site-verification">>) }

\* outcomes of a lookup of which only "are there records" is read
ProbeOutcomes(i) ==
    { Failure(i), NoRecords(i),
      [err |-> "", recs |-> << [ip |-> <<"1.2.3.4">>] >>] }

\* the names looked up
sendingDomain == RULE_SENDING_SUBDOMAIN \o <<".">> \o Domain

dkimDomain == RULE_DKIM_SELECTOR \o <<".", "_domainkey", ".">> \o Domain

dmarcDomain == <<"_dmarc", ".">> \o Domain

(***************************************************************************)
(* The five checks.  A DnsRecordCheck is [status, expected, actual,        *)
(* existing] with <<>> for null; actual is kept for ns, where the run      *)
(* reads it again, and for dmarc, and left out for mx, spf and dkim.       *)
(***************************************************************************)
DnsRecordCheck(status, expected, actual, raw) ==
    [status |-> status, expected |-> expected, actual |-> actual,
     existing |-> raw]

\* array_map(fn ($r) => $r['target'], $records) / records.map(...)
TargetsOf(recs) == [k \in 1..Len(recs) |-> recs[k].target]

LowerAll(hosts) == [k \in 1..Len(hosts) |-> strtolower(hosts[k])]

\* some host is the expected one, with or without the root dot
AnyIs(hosts, host) ==
    \E k \in 1..Len(hosts) :
        hosts[k] = host \/ hosts[k] = host \o <<".">>

\* $flat / flat: the text of each TXT row
Flat(recs) == [k \in 1..Len(recs) |-> Join(recs[k].chunks)]

\* position of the first text with the prefix, 0 if none
FirstWith(flat, prefix) ==
    LET P == { k \in 1..Len(flat) : StartsWith(flat[k], prefix) }
    IN  IF P = {} THEN 0 ELSE CHOOSE k \in P : \A j \in P : k <= j

ExpectSpfCname == <<"CNAME -> ">> \o RULE_CNAME_TARGET

ExpectSpfTxt == <<"SPF including rulemailer">>

ExpectDmarc == <<"v", "=", "DMARC1">>

\* $records !== false && count($records) > 0, as safeHasRecords returns it
\* and as every check tests it
PhpHasRecords(o) == o.err # "false" /\ Len(o.recs) > 0

\* DnsChecker::checkNs
PhpCheckNs(ns) ==
    IF ~PhpHasRecords(ns)
    THEN DnsRecordCheck("missing", <<>>, <<>>, <<>>)
    ELSE DnsRecordCheck("pass", <<>>, TargetsOf(ns.recs), <<>>)

\* DnsChecker::checkMx
PhpCheckMx(mx, cname) ==
    IF PhpHasRecords(mx)
    THEN IF AnyIs(LowerAll(TargetsOf(mx.recs)), RULE_MX_HOST)
         THEN DnsRecordCheck("pass", RULE_MX_HOST, <<>>, <<>>)
         ELSE DnsRecordCheck("fail", RULE_MX_HOST, <<>>, <<>>)
    ELSE IF PhpHasRecords(cname)
    THEN IF AnyIs(LowerAll(TargetsOf(cname.recs)), RULE_CNAME_TARGET)
         THEN DnsRecordCheck("pass", RULE_MX_HOST, <<>>, <<>>)
         ELSE DnsRecordCheck("fail", RULE_MX_HOST, <<>>, <<>>)
    ELSE DnsRecordCheck("missing", RULE_MX_HOST, <<>>, <<>>)

\* the lookups checkMx makes
PhpMxLookups(mx, cname) ==
    IF PhpHasRecords(mx) THEN <<mx>> ELSE <<mx, cname>>

\* the CNAME branch of checkSpf returns Pass
PhpSpfByCname(cname) ==
    /\ PhpHasRecords(cname)
    /\ AnyIs(LowerAll(TargetsOf(cname.recs)), RULE_CNAME_TARGET)

\* DnsChecker::checkSpf
PhpCheckSpf(cname, txt) ==
    LET flat == Flat(txt.recs)
        n == FirstWith(flat, <<"v", "=", "spf1">>)
    IN  IF PhpSpfByCname(cname)
        THEN DnsRecordCheck("pass", ExpectSpfCname, <<>>, <<>>)
        ELSE IF PhpHasRecords(txt) /\ n # 0
        THEN IF Contains(flat[n], "rulemailer")
             THEN DnsRecordCheck("pass", ExpectSpfTxt, <<>>, <<>>)
             ELSE DnsRecordCheck("fail", ExpectSpfTxt, <<>>, <<>>)
        ELSE DnsRecordCheck("missing", ExpectSpfCname, <<>>, <<>>)

PhpSpfLookups(cname, txt) ==
    IF PhpSpfByCname(cname) THEN <<cname>> ELSE <<cname, txt>>

\* DnsChecker::checkDkim
PhpCheckDkim(cname) ==
    IF PhpHasRecords(cname)
    THEN IF AnyIs(LowerAll(TargetsOf(cname.recs)), RULE_DKIM_TARGET)
         THEN DnsRecordCheck("pass", RULE_DKIM_TARGET, <<>>, <<>>)
         ELSE DnsRecordCheck("fail", RULE_DKIM_TARGET, <<>>, <<>>)
    ELSE DnsRecordCheck("missing", RULE_DKIM_TARGET, <<>>, <<>>)

\* DnsChecker::checkDmarc
PhpCheckDmarc(txt) ==
    LET flat == Flat(txt.recs)
        n == FirstWith(flat, <<"v", "=", "DMARC1">>)
    IN  IF PhpHasRecords(txt) /\ n # 0
        THEN DnsRecordCheck("pass", ExpectDmarc, flat[n], flat[n])
        ELSE DnsRecordCheck("missing", ExpectDmarc, <<>>, <<>>)

\* the awaited lookup resolved: the try block goes on
Resolved(o) == o.err = ""

\* mutant: the catch clauses take only "no records" rejections
TsCatch_noDataOnly(o) == o.err = "ENODATA"

\* catch { ... } of check-dns.ts: every rejection is taken, whatever its code
TsCatch(o) == o.err # ""

\* checkNs
TsCheckNs(ns) ==
    IF Resolved(ns)
    THEN IF Len(ns.recs) = 0
         THEN DnsRecordCheck("missing", <<>>, <<>>, <<>>)
         ELSE DnsRecordCheck("pass", <<>>, TargetsOf(ns.recs), <<>>)
    ELSE DnsRecordCheck("missing", <<>>, <<>>, <<>>)

\* mutant: no CNAME fallback
TsCheckMx_noFallback(mx, cname) ==
    IF Resolved(mx)
    THEN IF AnyIs(LowerAll(TargetsOf(mx.recs)), RULE_MX_HOST)
         THEN DnsRecordCheck("pass", RULE_MX_HOST, <<>>, <<>>)
         ELSE DnsRecordCheck("fail", RULE_MX_HOST, <<>>, <<>>)
    ELSE DnsRecordCheck("missing", RULE_MX_HOST, <<>>, <<>>)

\* checkMx
TsCheckMx(mx, cname) ==
    IF Resolved(mx)
    THEN IF AnyIs(LowerAll(TargetsOf(mx.recs)), RULE_MX_HOST)
         THEN DnsRecordCheck("pass", RULE_MX_HOST, <<>>, <<>>)
         ELSE IF Len(mx.recs) = 0
         THEN DnsRecordCheck("missing", RULE_MX_HOST, <<>>, <<>>)
         ELSE DnsRecordCheck("fail", RULE_MX_HOST, <<>>, <<>>)
    ELSE IF Resolved(cname)
    THEN IF AnyIs(LowerAll(TargetsOf(cname.recs)), RULE_CNAME_TARGET)
         THEN DnsRecordCheck("pass", RULE_MX_HOST, <<>>, <<>>)
         ELSE DnsRecordCheck("fail", RULE_MX_HOST, <<>>, <<>>)
    ELSE DnsRecordCheck("missing", RULE_MX_HOST, <<>>, <<>>)

TsMxLookups(mx, cname) == IF Resolved(mx) THEN <<mx>> ELSE <<mx, cname>>

\* the first try block of checkSpf returns pass
TsSpfByCname(cname) ==
    /\ Resolved(cname)
    /\ AnyIs(LowerAll(TargetsOf(cname.recs)), RULE_CNAME_TARGET)

\* checkSpf
TsCheckSpf(cname, txt) ==
    LET flat == Flat(txt.recs)
        n == FirstWith(flat, <<"v", "=", "spf1">>)
    IN  IF TsSpfByCname(cname)
        THEN DnsRecordCheck("pass", ExpectSpfCname, <<>>, <<>>)
        ELSE IF Resolved(txt) /\ n # 0
        THEN IF Contains(flat[n], "rulemailer")
             THEN DnsRecordCheck("pass", ExpectSpfTxt, <<>>, <<>>)
             ELSE DnsRecordCheck("fail", ExpectSpfTxt, <<>>, <<>>)
        ELSE DnsRecordCheck("missing", ExpectSpfCname, <<>>, <<>>)

TsSpfLookups(cname, txt) ==
    IF TsSpfByCname(cname) THEN <<cname>> ELSE <<cname, txt>>

\* checkDkim
TsCheckDkim(cname) ==
    IF Resolved(cname)
    THEN IF AnyIs(LowerAll(TargetsOf(cname.recs)), RULE_DKIM_TARGET)
         THEN DnsRecordCheck("pass", RULE_DKIM_TARGET, <<>>, <<>>)
         ELSE DnsRecordCheck("fail", RULE_DKIM_TARGET, <<>>, <<>>)
    ELSE DnsRecordCheck("missing", RULE_DKIM_TARGET, <<>>, <<>>)

\* checkDmarc
TsCheckDmarc(txt) ==
    LET flat == Flat(txt.recs)
        n == FirstWith(flat, <<"v", "=", "DMARC1">>)
    IN  IF Resolved(txt) /\ n # 0
        THEN DnsRecordCheck("pass", ExpectDmarc, flat[n], flat[n])
        ELSE DnsRecordCheck("missing", ExpectDmarc, <<>>, <<>>)

\* safeHasRecords of check-dns.ts
TsSafeHasRecords(o) == Resolved(o) /\ Len(o.recs) > 0

\* mutant: every warning is given the severity error
DnsWarning_allErrors(code, severity, args) ==
    [code |-> code, severity |-> "error", args |-> args]

(***************************************************************************)
(* Warnings: [code, severity, args], args being the texts put in the       *)
(* message                                                                 *)
(***************************************************************************)
DnsWarning(code, severity, args) ==
    [code |-> code, severity |-> severity, args |-> args]

\* DnsChecker::detectCnameConflict: the warnings it adds
PhpDetectCnameConflict(cname, a, aaaa, txt, mx) ==
    IF PhpHasRecords(cname) THEN <<>>
    ELSE IF \/ PhpHasRecords(a)
            \/ PhpHasRecords(aaaa)
            \/ PhpHasRecords(txt)
            \/ PhpHasRecords(mx)
    THEN << DnsWarning("CNAME_CONFLICT_MX_SPF", "error", <<sendingDomain>>) >>
    ELSE <<>>

PhpCnameConflictLookups(cname, a, aaaa, txt, mx) ==
    IF PhpHasRecords(cname) THEN <<cname>> ELSE <<cname, a, aaaa, txt, mx>>

\* detectCnameConflict of check-dns.ts
TsDetectCnameConflict(cname, a, txt, mx) ==
    IF Resolved(cname) THEN <<>>
    ELSE IF \/ TsSafeHasRecords(a)
            \/ TsSafeHasRecords(txt)
            \/ TsSafeHasRecords(mx)
    THEN << DnsWarning("CNAME_CONFLICT_MX_SPF", "error", <<sendingDomain>>) >>
    ELSE <<>>

TsCnameConflictLookups(cname, a, txt, mx) ==
    IF Resolved(cname) THEN <<cname>> ELSE <<cname, a, txt, mx>>

\* DnsChecker::detectDkimConflict
PhpDetectDkimConflict(cname, txt) ==
    IF PhpHasRecords(cname) THEN <<>>
    ELSE IF PhpHasRecords(txt)
    THEN << DnsWarning("CNAME_CONFLICT_DKIM", "error", <<dkimDomain>>) >>
    ELSE <<>>

PhpDkimConflictLookups(cname, txt) ==
    IF PhpHasRecords(cname) THEN <<cname>> ELSE <<cname, txt>>

\* detectDkimConflict of check-dns.ts
TsDetectDkimConflict(cname, txt) ==
    IF Resolved(cname) THEN <<>>
    ELSE IF TsSafeHasRecords(txt)
    THEN << DnsWarning("CNAME_CONFLICT_DKIM", "error", <<dkimDomain>>) >>
    ELSE <<>>

TsDkimConflictLookups(cname, txt) ==
    IF Resolved(cname) THEN <<cname>> ELSE <<cname, txt>>

\* mutant: any answered NS lookup counts as Cloudflare
IsCloudflare_anyNs(ns) == ns.status = "pass"

\* $isCloudflare: a nameserver under .ns.cloudflare.com
IsCloudflare(ns) ==
    /\ ns.status = "pass"
    /\ \E k \in 1..Len(ns.actual) :
           EndsWith(rtrimDots(strtolower(ns.actual[k])),
                    <<".", "ns", ".", "cloudflare", ".", "com">>)

\* $cnameSubdomains
CnameSubdomains(chk) ==
    (IF chk.mx.status # "pass" \/ chk.spf.status # "pass"
     THEN <<sendingDomain>> ELSE <<>>)
    \o (IF chk.dkim.status # "pass" THEN <<dkimDomain>> ELSE <<>>)

\* DnsChecker::detectCloudflareProxy: probes[k] is the outcome of the A
\* lookup at the k-th name of $cnameSubdomains
DetectCloudflareProxy(chk, probes) ==
    IF ~IsCloudflare(chk.ns) THEN <<>>
    ELSE LET subs == CnameSubdomains(chk)
             Hit(k) == PhpHasRecords(probes[k])
             hits == SelectSeq([k \in 1..Len(subs) |-> k], Hit)
         IN  [n \in 1..Len(hits) |->
                 DnsWarning("CLOUDFLARE_PROXY_ENABLED", "error",
                            <<subs[hits[n]]>>)]

CloudflareLookups(chk, probes) ==
    IF ~IsCloudflare(chk.ns) THEN <<>>
    ELSE SubSeq(probes, 1, Len(CnameSubdomains(chk)))

\* mutant: only p=reject counts as an enforced policy
DmarcWarnings_rejectOnly(parsed) ==
    IF ~parsed.valid THEN <<>>
    ELSE (IF parsed.aspf = <<"s">>
          THEN << DnsWarning("STRICT_SPF_ALIGNMENT", "warning",
                             <<sendingDomain>>) >>
          ELSE <<>>)
      \o (IF parsed.adkim = <<"s">>
          THEN << DnsWarning("STRICT_DKIM_ALIGNMENT", "info", <<>>) >>
          ELSE <<>>)
      \o (IF parsed.p = <<"reject">>
          THEN << DnsWarning("EXISTING_DMARC_POLICY", "info",
                             << parsed.p, <<"rejected">> >>) >>
          ELSE <<>>)

\* the warnings analyzeDmarc adds for a parsed record
DmarcWarnings(parsed) ==
    IF ~parsed.valid THEN <<>>
    ELSE (IF parsed.aspf = <<"s">>
          THEN << DnsWarning("STRICT_SPF_ALIGNMENT", "warning",
                             <<sendingDomain>>) >>
          ELSE <<>>)
      \o (IF parsed.adkim = <<"s">>
          THEN << DnsWarning("STRICT_DKIM_ALIGNMENT", "info", <<>>) >>
          ELSE <<>>)
      \o (IF parsed.p \in { <<"reject">>, <<"quarantine">> }
          THEN << DnsWarning("EXISTING_DMARC_POLICY", "info",
                             << parsed.p,
                                IF parsed.p = <<"reject">>
                                THEN <<"rejected">>
                                ELSE <<"quarantined">> >>) >>
          ELSE <<>>)

\* the texts a TXT lookup at the DMARC name can return
DmarcTexts == { Join(row.chunks) : row \in DmarcKinds }

\* DmarcParser::parse and parseDmarc of each of them, computed once
ParsedByPhp == [raw \in DmarcTexts |-> DmarcParser_parse(raw)]

ParsedByTs == [raw \in DmarcTexts |-> parseDmarc(raw)]

\* DnsChecker::analyzeDmarc / analyzeDmarc
analyzeDmarc(i, dmarc) ==
    IF dmarc.existing = <<>> THEN <<>>
    ELSE DmarcWarnings(IF i = "php"
                       THEN ParsedByPhp[dmarc.existing]
                       ELSE ParsedByTs[dmarc.existing])

\* mutant: ns counts too
AllPassedOf_nsToo(chk) ==
    /\ chk.ns.status = "pass"
    /\ chk.mx.status = "pass"
    /\ chk.spf.status = "pass"
    /\ chk.dkim.status = "pass"
    /\ chk.dmarc.status = "pass"

\* $allPassed / allPassed
AllPassedOf(chk) ==
    /\ chk.mx.status = "pass"
    /\ chk.spf.status = "pass"
    /\ chk.dkim.status = "pass"
    /\ chk.dmarc.status = "pass"

(***************************************************************************)
(* The check run.  DnsChecker::check makes its calls one after the other.  *)
(* checkDns starts the five checks in the order of the array and awaits    *)
(* them together: they share no variable and each result goes to its own   *)
(* place, so they are ended here in the order they were started.  It then  *)
(* awaits the two conflict detections together, which push to the same     *)
(* warnings array and are ended in either order, analyses the DMARC record *)
(* and returns.                                                            *)
(***************************************************************************)
CheckNames == {"ns", "mx", "spf", "dkim", "dmarc"}

Detections == {"cnameConflict", "dkimConflict"}

\* the calls of DnsChecker::check, in order
PhpOrder ==
    <<"ns", "mx", "spf", "dkim", "dmarc", "cnameConflict", "dkimConflict",
      "cloudflare", "analyze", "return">>

\* the steps of checkDns
TsSteps == CheckNames \cup Detections \cup {"analyze", "return"}

\* the steps of PhpOrder that come before step s
Earlier(s) ==
    { PhpOrder[k] : k \in { j \in 1..Len(PhpOrder) :
          \E n \in 1..Len(PhpOrder) : PhpOrder[n] = s /\ j < n } }

\* mutant: no step waits for another
Before_noBarrier(i, s) == {}

\* the steps that have ended when step s begins
Before(i, s) ==
    IF i = "php" \/ s \in CheckNames
    THEN Earlier(s) \cap (IF i = "php" THEN Earlier("return") ELSE TsSteps)
    ELSE CASE s \in Detections -> CheckNames
           [] s = "analyze" -> CheckNames \cup Detections
           [] OTHER -> CheckNames \cup Detections \cup {"analyze"}

Ready(s) ==
    /\ pc = "check"
    /\ s \notin done
    /\ impl = "ts" => s \in TsSteps
    /\ Before(impl, s) \subseteq done

\* the rejection among the lookups made that no catch clause takes ("" when
\* there is none); getRecord of the PHP resolvers throws nothing
Escaped(i, outs) ==
    LET E == { k \in 1..Len(outs) :
                 ~Resolved(outs[k]) /\ ~TsCatch(outs[k]) }
    IN  IF i = "php" \/ E = {}
        THEN ""
        ELSE outs[CHOOSE k \in E : \A j \in E : k <= j].err

\* the lookup resolved to records: there are such records at the name
Exists(o) == o.err = "" /\ Len(o.recs) > 0

\* the hosts the answer names, none if the lookup found no records
TargetSet(o) == { o.recs[k].target : k \in 1..Len(o.recs) }

\* the names (or record types) among names at which the lookups outs, one
\* for each of the first Len(outs) names, found records
Found(names, outs) ==
    { names[k] : k \in { j \in 1..Len(outs) : Exists(outs[j]) } }

\* the outcomes a lookup is drawn from; a lookup that is not made has no
\* outcome, and its place is filled with NoRecords
Drawn(made, outcomes) == IF made THEN outcomes ELSE {NoRecords(impl)}

\* a check ends with result res after the lookups outs; asIf is its result
\* had each failed lookup found no records, fnd what the resolver answered
EndCheck(s, res, asIf, outs, fnd) ==
    IF Escaped(impl, outs) # ""
    THEN /\ Propagate(Escaped(impl, outs))
         /\ UNCHANGED <<checks, ckVars>>
    ELSE /\ checks' = [checks EXCEPT ![s] = res]
         /\ done' = done \cup {s}
         /\ last' = [step |-> s, failed |-> FailedOf(impl, outs),
                     check |-> asIf, warnings |-> warnings, seen |-> fnd]
         /\ UNCHANGED <<warnings, allPassed, pc, raised>>

\* a detection or analysis ends having added the warnings added; fnd is
\* what there was at the names it looked up
EndDetect(s, added, asIf, outs, fnd) ==
    IF Escaped(impl, outs) # ""
    THEN /\ Propagate(Escaped(impl, outs))
         /\ UNCHANGED <<checks, ckVars>>
    ELSE /\ warnings' = warnings \o added
         /\ done' = done \cup {s}
         /\ last' = [step |-> s, failed |-> "none",
                     check |-> StatusOnly(""),
                     warnings |-> warnings \o asIf, seen |-> fnd]
         /\ UNCHANGED <<checks, allPassed, pc, raised>>

InitCheck ==
    /\ impl \in {"php", "ts"}
    /\ checks = [s \in CheckNames |-> StatusOnly("pending")]
    /\ pc = "check"
    /\ required = <<>>
    /\ raised = ""
    /\ ReconcileIdle
    /\ CheckIdle
    /\ AdapterIdle
    /\ PureIdle

CheckNs ==
    /\ Ready("ns")
    /\ \E ns \in Outcomes(impl, NsKinds) :
        LET Res(o) == IF impl = "php" THEN PhpCheckNs(o) ELSE TsCheckNs(o)
        IN  EndCheck("ns", Res(ns), Res(AsNoRecords(impl, ns)), <<ns>>, <<>>)
    /\ UNCHANGED <<impl, required, rcVars, adVars, pfVars>>

CheckMx ==
    /\ Ready("mx")
    /\ \E mx \in Outcomes(impl, MxKinds) :
       \E cname \in Drawn(~(IF impl = "php"
                             THEN PhpHasRecords(mx) ELSE Resolved(mx)),
                           Outcomes(impl, CnameKinds)) :
        LET Res(a, b) ==
                IF impl = "php" THEN PhpCheckMx(a, b) ELSE TsCheckMx(a, b)
        IN  EndCheck("mx", Res(mx, cname),
                     Res(AsNoRecords(impl, mx), AsNoRecords(impl, cname)),
                     IF impl = "php"
                     THEN PhpMxLookups(mx, cname)
                     ELSE TsMxLookups(mx, cname),
                     <<TargetSet(mx), TargetSet(cname)>>)
    /\ UNCHANGED <<impl, required, rcVars, adVars, pfVars>>

CheckSpf ==
    /\ Ready("spf")
    /\ \E cname \in Outcomes(impl, CnameKinds) :
       \E txt \in Drawn(~(IF impl = "php"
                           THEN PhpSpfByCname(cname) ELSE TsSpfByCname(cname)),
                         Outcomes(impl, SpfKinds)) :
        LET Res(a, b) ==
                IF impl = "php" THEN PhpCheckSpf(a, b) ELSE TsCheckSpf(a, b)
        IN  EndCheck("spf", Res(cname, txt),
                     Res(AsNoRecords(impl, cname), AsNoRecords(impl, txt)),
                     IF impl = "php"
                     THEN PhpSpfLookups(cname, txt)
                     ELSE TsSpfLookups(cname, txt),
                     <<>>)
    /\ UNCHANGED <<impl, required, rcVars, adVars, pfVars>>

CheckDkim ==
    /\ Ready("dkim")
    /\ \E cname \in Outcomes(impl, DkimKinds) :
        LET Res(o) ==
                IF impl = "php" THEN PhpCheckDkim(o) ELSE TsCheckDkim(o)
        IN  EndCheck("dkim", Res(cname), Res(AsNoRecords(impl, cname)),
                     <<cname>>, <<>>)
    /\ UNCHANGED <<impl, required, rcVars, adVars, pfVars>>

CheckDmarc ==
    /\ Ready("dmarc")
    /\ \E txt \in Outcomes(impl, DmarcKinds) :
        LET Res(o) ==
                IF impl = "php" THEN PhpCheckDmarc(o) ELSE TsCheckDmarc(o)
        IN  EndCheck("dmarc", Res(txt), Res(AsNoRecords(impl, txt)), <<txt>>,
                     <<>>)
    /\ UNCHANGED <<impl, required, rcVars, adVars, pfVars>>

\* what the records at the sending subdomain are told apart by: a CNAME, an
\* AAAA record, which only DnsChecker looks up, and the types both look up
ConflictKinds == <<"CNAME", "A/TXT/MX", "AAAA", "A/TXT/MX", "A/TXT/MX">>

\* detectCnameConflict of check-dns.ts makes no AAAA lookup: for it aaaa is
\* what there is at the name (AAAA records or none), not a lookup's outcome
DetectCnameConflict ==
    /\ Ready("cnameConflict")
    /\ \E cname \in ProbeOutcomes(impl) :
       \E a, txt, mx \in Drawn(~(IF impl = "php"
                                 THEN PhpHasRecords(cname)
                                 ELSE Resolved(cname)),
                               ProbeOutcomes(impl)) :
       \E aaaa \in Drawn(~(IF impl = "php"
                            THEN PhpHasRecords(cname)
                            ELSE Resolved(cname)),
                          IF impl = "php"
                          THEN ProbeOutcomes(impl)
                          ELSE ProbeOutcomes(impl) \ {Failure(impl)}) :
        LET outs == <<cname, a, aaaa, txt, mx>>
            Add(o) ==
                IF impl = "php"
                THEN PhpDetectCnameConflict(o[1], o[2], o[3], o[4], o[5])
                ELSE TsDetectCnameConflict(o[1], o[2], o[4], o[5])
        IN  EndDetect("cnameConflict", Add(outs),
                      Add(AllAsNoRecords(impl, outs)),
                      IF impl = "php"
                      THEN PhpCnameConflictLookups(cname, a, aaaa, txt, mx)
                      ELSE TsCnameConflictLookups(cname, a, txt, mx),
                      Found(ConflictKinds, outs))
    /\ UNCHANGED <<impl, required, rcVars, adVars, pfVars>>

DetectDkimConflict ==
    /\ Ready("dkimConflict")
    /\ \E cname \in ProbeOutcomes(impl) :
       \E txt \in Drawn(~(IF impl = "php"
                           THEN PhpHasRecords(cname) ELSE Resolved(cname)),
                         ProbeOutcomes(impl)) :
        LET Add(a, b) ==
                IF impl = "php"
                THEN PhpDetectDkimConflict(a, b)
                ELSE TsDetectDkimConflict(a, b)
        IN  EndDetect("dkimConflict", Add(cname, txt),
                      Add(AsNoRecords(impl, cname), AsNoRecords(impl, txt)),
                      IF impl = "php"
                      THEN PhpDkimConflictLookups(cname, txt)
                      ELSE TsDkimConflictLookups(cname, txt),
                      <<>>)
    /\ UNCHANGED <<impl, required, rcVars, adVars, pfVars>>

DetectCloudflare ==
    /\ Ready("cloudflare")
    /\ \E a1 \in Drawn(IsCloudflare(checks.ns)
                            /\ Len(CnameSubdomains(checks)) >= 1,
                        ProbeOutcomes(impl)),
          a2 \in Drawn(IsCloudflare(checks.ns)
                            /\ Len(CnameSubdomains(checks)) >= 2,
                        ProbeOutcomes(impl)) :
        EndDetect("cloudflare",
                  DetectCloudflareProxy(checks, <<a1, a2>>),
                  DetectCloudflareProxy(checks,
                                        AllAsNoRecords(impl, <<a1, a2>>)),
                  CloudflareLookups(checks, <<a1, a2>>),
                  Found(CnameSubdomains(checks),
                        CloudflareLookups(checks, <<a1, a2>>)))
    /\ UNCHANGED <<impl, required, rcVars, adVars, pfVars>>

AnalyzeDmarc ==
    /\ Ready("analyze")
    /\ LET added == analyzeDmarc(impl, checks.dmarc)
       IN  EndDetect("analyze", added, added, <<>>, <<>>)
    /\ UNCHANGED <<impl, required, rcVars, adVars, pfVars>>

\* $allPassed is computed and the DnsCheckResult returned
Return ==
    /\ Ready("return")
    /\ allPassed' = AllPassedOf(checks)
    /\ pc' = "checked"
    /\ done' = done \cup {"return"}
    /\ last' = [step |-> "return", failed |-> "none",
                check |-> StatusOnly(""), warnings |-> warnings,
                seen |-> <<>>]
    /\ UNCHANGED <<impl, checks, required, raised, warnings, rcVars,
                   adVars, pfVars>>

NextCheck ==
    \/ CheckNs
    \/ CheckMx
    \/ CheckSpf
    \/ CheckDkim
    \/ CheckDmarc
    \/ DetectCnameConflict
    \/ DetectDkimConflict
    \/ DetectCloudflare
    \/ AnalyzeDmarc
    \/ Return

SpecCheck == InitCheck /\ [][NextCheck]_vars

\* C9: in every check result, allPassed is true exactly when mx, spf, dkim
\* and dmarc all have status pass; ns is pass or missing and has no part in
\* it.
C9_AllPassed ==
    pc = "checked" =>
        /\ allPassed <=>
               \A s \in {"mx", "spf", "dkim", "dmarc"} :
                   checks[s].status = "pass"
        /\ checks.ns.status \in {"pass", "missing"}

C9_Witness ==
    /\ pc = "checked"
    /\ allPassed
    /\ checks.ns.status = "missing"

\* C10: a check run never raises, whichever lookups fail; a step whose
\* lookups failed leaves what it would have left had those lookups found no
\* records; a check all of whose lookups failed ends missing; and a run
\* that has not returned can take a step, and returns with all five checks
\* settled.
C10_LookupFailureAbsorbed ==
    /\ raised = ""
    /\ pc \in {"check", "checked"}
    /\ last.step \in CheckNames => checks[last.step] = last.check
    /\ last.step # "" => warnings = last.warnings
    /\ (last.step \in CheckNames /\ last.failed = "all") =>
           checks[last.step].status = "missing"
    /\ pc = "check" => \E s \in TsSteps \cup {"cloudflare"} : Ready(s)
    /\ pc = "checked" =>
           \A s \in CheckNames : checks[s].status \in Status

C10_Witness ==
    /\ last.step = "mx"
    /\ last.failed = "some"
    /\ checks.mx.status = "pass"
    /\ checks.ns.status = "missing"

\* a host name an answer carries is the expected one, whatever its letter
\* case and with or without the root dot
MatchesHost(t, host) ==
    LET l == strtolower(t) IN l = host \/ l = host \o <<".">>

MaxCallers == 3

Callers == 1..MaxCallers

\* ids the API knows the zone / domain by
ZoneIds == {"z1", "z2"}

\* hetzner({zoneId?, domain?}) / domeneshop({domainId?, domain?}): one of
\* the two is required
Adapters ==
    { a \in [kind : {"hetzner", "domeneshop"}, zoneId : {"", "z1"},
             domain : BOOLEAN] : a.zoneId # "" \/ a.domain }

Pending == [state |-> "pending", value |-> ""]

\* a call that has not been made
NotCalled == [pc |-> "idle", on |-> 0, zone |-> ""]

InitAdapter ==
    /\ impl = "ts"
    /\ checks = [s \in {"ns", "mx", "spf", "dkim", "dmarc"} |->
                    StatusOnly("pending")]
    /\ pc = "adapter"
    /\ required = <<>>
    /\ raised = ""
    /\ ReconcileIdle
    /\ CheckIdle
    /\ adapter \in Adapters
    /\ resolvedZoneId = adapter.zoneId
    /\ resolvedDomainName = <<>>
    /\ zoneIdPromise = 0
    /\ promises = <<>>
    /\ PureIdle
    /\ lookups = 0
    /\ callers = [c \in Callers |-> NotCalled]

\* mutant: getZoneId starts a lookup whenever the id is not resolved
StartsLookup_always == TRUE

\* if (!zoneIdPromise): no lookup is in flight, getZoneId starts one
StartsLookup == zoneIdPromise = 0

\* getZoneId / getDomainInfo with the id not resolved: the call waits on the
\* promise of the lookup in flight, which it starts if there is none
GetZoneId(c) ==
    IF StartsLookup
    THEN /\ promises' = Append(promises, Pending)
         /\ zoneIdPromise' = Len(promises) + 1
         /\ lookups' = lookups + 1
         /\ callers' = [callers EXCEPT
                ![c] = [pc |-> "zone", on |-> Len(promises) + 1, zone |-> ""]]
    ELSE /\ callers' = [callers EXCEPT
                ![c] = [pc |-> "zone", on |-> zoneIdPromise, zone |-> ""]]
         /\ UNCHANGED <<promises, zoneIdPromise, lookups>>

\* getDomainName of domeneshop needs a request of its own: the name is not
\* resolved and no domain option was given
NameLookupNeeded ==
    /\ adapter.kind = "domeneshop"
    /\ resolvedDomainName = <<>>
    /\ ~adapter.domain

\* getRecords with the id resolved: domeneshop gets the domain name, and
\* the records are requested for the id
WithZoneId(c, id) ==
    IF NameLookupNeeded
    THEN /\ lookups' = lookups + 1
         /\ callers' = [callers EXCEPT
                ![c] = [pc |-> "name", on |-> 0, zone |-> id]]
         /\ UNCHANGED resolvedDomainName
    ELSE /\ callers' = [callers EXCEPT
                ![c] = [pc |-> "records", on |-> callers[c].on, zone |-> id]]
         /\ resolvedDomainName' =
                IF adapter.kind = "domeneshop" /\ resolvedDomainName = <<>>
                THEN Domain ELSE resolvedDomainName
         /\ UNCHANGED lookups

\* what no adapter writes
notAdapter == <<impl, checks, pc, required, raised, rcVars, ckVars,
                pfVars>>

\* provider.getRecords(name) is called: it runs up to its first await on a
\* request or on the promise of a lookup in flight
AdapterGetRecords ==
    /\ pc = "adapter"
    /\ \E c \in Callers :
        /\ callers[c].pc = "idle"
        /\ IF resolvedZoneId # ""
           THEN /\ WithZoneId(c, resolvedZoneId)
                /\ UNCHANGED <<promises, zoneIdPromise>>
           ELSE /\ GetZoneId(c)
                /\ UNCHANGED resolvedDomainName
    /\ UNCHANGED <<adapter, resolvedZoneId, notAdapter>>

\* the lookup in flight finds the zone / domain: lookupZoneId stores the id
\* (lookupDomainId the name too) and its promise is fulfilled
ZoneLookupResolves ==
    /\ pc = "adapter"
    /\ zoneIdPromise # 0
    /\ promises[zoneIdPromise].state = "pending"
    /\ \E id \in ZoneIds :
        /\ resolvedZoneId' = id
        /\ promises' = [promises EXCEPT ![zoneIdPromise] =
                            [state |-> "fulfilled", value |-> id]]
    /\ resolvedDomainName' =
           IF adapter.kind = "domeneshop" THEN Domain ELSE resolvedDomainName
    /\ UNCHANGED <<adapter, zoneIdPromise, lookups, callers, notAdapter>>

\* mutant: the catch handler leaves zoneIdPromise as it is
Catch_kept(p) == p

\* .catch((err) => { zoneIdPromise = undefined; throw err; }): what
\* zoneIdPromise is after the handler ran on the rejection of promise p
Catch(p) == 0

\* the lookup in flight fails or finds nothing: lookupZoneId throws, the
\* catch handler clears zoneIdPromise and throws the error again
ZoneLookupRejects ==
    /\ pc = "adapter"
    /\ zoneIdPromise # 0
    /\ promises[zoneIdPromise].state = "pending"
    /\ promises' = [promises EXCEPT ![zoneIdPromise] =
                        [state |-> "rejected", value |-> ""]]
    /\ zoneIdPromise' = Catch(zoneIdPromise)
    /\ UNCHANGED <<adapter, resolvedZoneId, resolvedDomainName, lookups,
                   callers, notAdapter>>

\* a call resumes from await getZoneId() / await getDomainInfo()
ZoneIdAwaited ==
    /\ pc = "adapter"
    /\ \E c \in Callers :
        /\ callers[c].pc = "zone"
        /\ promises[callers[c].on].state # "pending"
        /\ IF promises[callers[c].on].state = "fulfilled"
           THEN WithZoneId(c, promises[callers[c].on].value)
           ELSE /\ callers' = [callers EXCEPT ![c].pc = "failed"]
                /\ UNCHANGED <<resolvedDomainName, lookups>>
    /\ UNCHANGED <<adapter, resolvedZoneId, zoneIdPromise, promises,
                   notAdapter>>

\* the /domains request of getDomainName finds the domain of the id
NameLookupResolves ==
    /\ pc = "adapter"
    /\ \E c \in Callers :
        /\ callers[c].pc = "name"
        /\ callers' = [callers EXCEPT ![c].pc = "records"]
    /\ resolvedDomainName' = Domain
    /\ UNCHANGED <<adapter, resolvedZoneId, zoneIdPromise, promises, lookups,
                   notAdapter>>

\* the /domains request of getDomainName fails or has no such id
NameLookupRejects ==
    /\ pc = "adapter"
    /\ \E c \in Callers :
        /\ callers[c].pc = "name"
        /\ callers' = [callers EXCEPT ![c].pc = "failed"]
    /\ UNCHANGED <<adapter, resolvedZoneId, resolvedDomainName, zoneIdPromise,
                   promises, lookups, notAdapter>>

\* the records request of a call is answered: getRecords returns
RecordsResolve ==
    /\ pc = "adapter"
    /\ \E c \in Callers :
        /\ callers[c].pc = "records"
        /\ callers' = [callers EXCEPT ![c].pc = "returned"]
    /\ UNCHANGED <<adapter, resolvedZoneId, resolvedDomainName, zoneIdPromise,
                   promises, lookups, notAdapter>>

\* the records request of a call fails: getRecords throws
RecordsReject ==
    /\ pc = "adapter"
    /\ \E c \in Callers :
        /\ callers[c].pc = "records"
        /\ callers' = [callers EXCEPT ![c].pc = "failed"]
    /\ UNCHANGED <<adapter, resolvedZoneId, resolvedDomainName, zoneIdPromise,
                   promises, lookups, notAdapter>>

NextAdapter ==
    \/ AdapterGetRecords
    \/ ZoneLookupResolves
    \/ ZoneLookupRejects
    \/ ZoneIdAwaited
    \/ NameLookupResolves
    \/ NameLookupRejects
    \/ RecordsResolve
    \/ RecordsReject

SpecAdapter == InitAdapter /\ [][NextAdapter]_vars

\* C12: on an adapter created without a zone / domain id, the getRecords
\* calls made before the first lookup has returned cause one lookup request
\* in all, however many they are: each waits on that lookup, and each that
\* goes on to request records does so with the id that lookup returned.
C12_OneLookup ==
    (pc = "adapter" /\ adapter.zoneId = "") =>
        /\ (promises # <<>> /\ promises[1].state = "pending") =>
               /\ lookups = 1
               /\ \A c \in Callers :
                      callers[c].pc # "idle" =>
                          callers[c] = [pc |-> "zone", on |-> 1, zone |-> ""]
        /\ \A c \in Callers :
               (callers[c].on = 1 /\ callers[c].pc \in {"records", "returned"})
                   => /\ promises[1].state = "fulfilled"
                      /\ callers[c].zone = promises[1].value

C12_Witness ==
    /\ pc = "adapter"
    /\ adapter = [kind |-> "domeneshop", zoneId |-> "", domain |-> TRUE]
    /\ lookups = 1
    /\ \A c \in Callers :
           callers[c] = [pc |-> "records", on |-> 1, zone |-> "z2"]

(***************************************************************************)
(* Claims on the warnings of a check run                                   *)
(***************************************************************************)
\* the warnings of the run so far that carry the code
WithCode(code) ==
    LET Is(w) == w.code = code IN SelectSeq(warnings, Is)

\* the names (or other texts) the message of a warning is made with
Named(ws) == UNION { { ws[k].args[j] : j \in 1..Len(ws[k].args) } :
                     k \in 1..Len(ws) }

\* C13: a check run emits at most one CLOUDFLARE_PROXY_ENABLED warning; when
\* A records are found at both the sending subdomain and the DKIM subdomain
\* there is one such warning and it names both.
C13_SingleProxyWarning ==
    /\ Len(WithCode("CLOUDFLARE_PROXY_ENABLED")) <= 1
    /\ (last.step = "cloudflare" /\ last.seen = {sendingDomain, dkimDomain})
           => /\ Len(WithCode("CLOUDFLARE_PROXY_ENABLED")) = 1
              /\ Named(WithCode("CLOUDFLARE_PROXY_ENABLED"))
                     = {sendingDomain, dkimDomain}

\* C14: the conflict detection at the sending subdomain adds one
\* CNAME_CONFLICT_MX_SPF warning when there is no CNAME record and there is
\* an A, AAAA, TXT or MX record, and none otherwise; no run has two.
C14_CnameConflict ==
    /\ Len(WithCode("CNAME_CONFLICT_MX_SPF")) <= 1
    /\ last.step = "cnameConflict" =>
           Len(WithCode("CNAME_CONFLICT_MX_SPF")) =
               IF "CNAME" \notin last.seen /\ last.seen # {} THEN 1 ELSE 0

\* the codes of the warnings of the run so far
Codes == { warnings[k].code : k \in 1..Len(warnings) }

\* what the parser of the implementation makes of the captured DMARC record
Parsed ==
    IF impl = "php"
    THEN ParsedByPhp[checks.dmarc.existing]
    ELSE ParsedByTs[checks.dmarc.existing]

HeldWithId(id) ==
    { r \in UNION { { provider[n][j] : j \in 1..Len(provider[n]) } :
                    n \in DOMAIN provider } : r.id = id }

\* C16: after a provider error in the loop the run has ended without a
\* result: no step follows, none returns created, deleted and skipped, and
\* the deletions and creations made before the error stay as they were made;
\* a run can so end with a conflicting record deleted and its replacement
\* not created.
C16_ErrorStrands ==
    pc = "raised" =>
        /\ raised # ""
        /\ ~ENABLED Next
        /\ \A k \in 1..Len(deleted) : HeldWithId(deleted[k].id) = {}
        /\ \A n \in 1..Len(calls) :
               (calls[n].op = "createRecord" /\ calls[n].err = "")
                   => HeldWithId(calls[n].id) # {}

C16_Witness ==
    /\ pc = "raised"
    /\ calls[Len(calls)].op = "createRecord"
    /\ calls[Len(calls)].err # ""
    /\ Len(deleted) = 1
    /\ deleted[1].name = calls[Len(calls)].name
    /\ provider0[deleted[1].name] = <<deleted[1]>>
    /\ provider[deleted[1].name] = <<>>
    /\ created = <<>>

\* the place of a record name in the target order mx-spf, dkim, dmarc
TargetPos(name) == CHOOSE k \in TargetIndex : Targets[k].name = name

\* the successful createRecord calls of the run, in the order made
Creations ==
    LET Made(x) == x.op = "createRecord" /\ x.err = "" IN SelectSeq(calls, Made)

\* C17: the provider calls of a run are made target by target in the order
\* mx-spf, dkim, dmarc: no call for an earlier target follows a call for a
\* later one, and created and the records created at the provider are in
\* that order.
C17_TargetOrder ==
    /\ \A m \in 1..Len(calls) : \A n \in 1..Len(calls) :
           m < n => TargetPos(calls[m].name) <= TargetPos(calls[n].name)
    /\ \A m \in 1..Len(created) : \A n \in 1..Len(created) :
           m < n => TargetPos(created[m].name) < TargetPos(created[n].name)
    /\ Len(Creations) = Len(created)
    /\ \A n \in 1..Len(Creations) :
           /\ Creations[n].name = created[n].name
           /\ n > 1 => Creations[n - 1].id < Creations[n].id

C17_Witness ==
    /\ pc = "done"
    /\ [k \in 1..Len(created) |-> created[k].name] =
           [k \in TargetIndex |-> Targets[k].name]
    /\ Len(deleted) >= 1
    /\ Len(calls) >= 7

\* the steps of a run that derive warnings
Derivations == Detections \cup {"cloudflare", "analyze"}

\* C18: a step that derives warnings is only taken when ns, mx, spf, dkim
\* and dmarc have all resolved: while one of the five is pending no such
\* step has been taken and the run has no warning.
C18_DeriveAfterChecks ==
    /\ (done \cap Derivations # {} \/ warnings # <<>>)
           => CheckNames \subseteq done
    /\ (\E s \in CheckNames : checks[s].status = "pending")
           => (warnings = <<>> /\ done \cap Derivations = {})
    /\ last.step \in Derivations
           => \A s \in CheckNames : checks[s].status # "pending"

C18_Witness ==
    /\ impl = "ts"
    /\ last.step = "dkimConflict"
    /\ "cnameConflict" \notin done
    /\ Len(warnings) = 1
    /\ \A s \in CheckNames : checks[s].status \in {"pass", "fail", "missing"}

\* the host ends, after lower-casing and without trailing dots, with the
\* Cloudflare nameserver suffix
CloudflareHost(host) ==
    \E k \in 0..Len(host) :
        /\ \A j \in (k + 1)..Len(host) : host[j] = "."
        /\ k >= 6
        /\ [j \in 1..6 |-> strtolower(<<host[k - 6 + j]>>)[1]]
               = <<".", "ns", ".", "cloudflare", ".", "com">>

\* the check whose failing puts the name among the names looked up
NotPassAt(name) ==
    \/ /\ name = sendingDomain
       /\ (checks.mx.status # "pass" \/ checks.spf.status # "pass")
    \/ /\ name = dkimDomain
       /\ checks.dkim.status # "pass"

\* C19: a CLOUDFLARE_PROXY_ENABLED warning is only present when the NS check
\* passed with a nameserver under the Cloudflare suffix, and names the
\* sending subdomain or the DKIM subdomain, with its check not pass and an A
\* record found there; with other nameservers, no NS answer or passing
\* checks there is none.
C19_ProxyWarningGuarded ==
    /\ \A k \in 1..Len(WithCode("CLOUDFLARE_PROXY_ENABLED")) :
           LET w == WithCode("CLOUDFLARE_PROXY_ENABLED")[k] IN
           /\ checks.ns.status = "pass"
           /\ \E n \in 1..Len(checks.ns.actual) :
                  CloudflareHost(checks.ns.actual[n])
           /\ Len(w.args) = 1
           /\ NotPassAt(w.args[1])
    /\ last.step = "cloudflare" =>
           /\ Named(WithCode("CLOUDFLARE_PROXY_ENABLED")) = last.seen
           /\ \A name \in last.seen : NotPassAt(name)

C19_Witness ==
    /\ impl = "php"
    /\ last.step = "cloudflare"
    /\ checks.mx.status = "pass"
    /\ checks.spf.status = "pass"
    /\ checks.dkim.status = "fail"
    /\ last.seen = {dkimDomain}
    /\ WithCode("CLOUDFLARE_PROXY_ENABLED") =
           << DnsWarning("CLOUDFLARE_PROXY_ENABLED", "error", <<dkimDomain>>) >>

\* the registry of warning codes, each with its severity
WarningRegistry ==
    { <<"CNAME_CONFLICT_MX_SPF", "error">>,
      <<"CNAME_CONFLICT_DKIM", "error">>,
      <<"CLOUDFLARE_PROXY_ENABLED", "error">>,
      <<"STRICT_SPF_ALIGNMENT", "warning">>,
      <<"STRICT_DKIM_ALIGNMENT", "info">>,
      <<"EXISTING_DMARC_POLICY", "info">> }

\* C20: every warning of a check run, at every step and in the result,
\* carries one of the six registered codes with the severity registered for
\* it.
C20_RegisteredWarnings ==
    \A k \in 1..Len(warnings) :
        <<warnings[k].code, warnings[k].severity>> \in WarningRegistry

C20_Witness ==
    /\ pc = "checked"
    /\ { <<warnings[k].code, warnings[k].severity>> : k \in 1..Len(warnings) }
           = WarningRegistry

(***************************************************************************)
(* The DMARC parsers on their own: DmarcParser::parse and parseDmarc        *)
(* applied to records that differ in their p and pct tags                  *)
(***************************************************************************)
\* the p tag of the records parsed: absent, each policy as the parser
\* spells it, policies in upper case (the key too), another word, no value
PolicyTags ==
    { <<>>,
      <<";", " ", "p", "=", "none">>,
      <<";", " ", "p", "=", "quarantine">>,
      <<";", " ", "p", "=", "reject">>,
      <<";", " ", "p", "=", "REJECT">>,
      <<";", " ", "P", "=", "QUARANTINE">>,
      <<";", " ", "p", "=", "other">>,
      <<";", " ", "p", "=">> }

\* the pct tag of the records parsed: absent, digit strings in and out of
\* 0..100, a negative number, a number in exponent notation, a word, no
\* value
PctTags ==
    { <<>> }
    \cup { <<";", " ", "pct", "=", v>> :
             v \in {"0", "50", "100", "101", "-5", "1e2", "abc"} }
    \cup { <<";", " ", "pct", "=">> }

ParserInputs ==
    { <<"v", "=", "DMARC1">> \o ptag \o pcttag :
        ptag \in PolicyTags, pcttag \in PctTags }
    \cup { <<"site-verification">>,
           <<" ", "v", "=", "DMARC1", ";", "p", "=", "none", ";", " ">> }

InitParse ==
    /\ impl \in {"php", "ts"}
    /\ checks = [s \in {"ns", "mx", "spf", "dkim", "dmarc"} |->
                    StatusOnly("pending")]
    /\ pc = "parse"
    /\ required = <<>>
    /\ raised = ""
    /\ ReconcileIdle
    /\ CheckIdle
    /\ AdapterIdle
    /\ parseArg \in ParserInputs
    /\ parseRet = [valid |-> FALSE]
    /\ cleanArg = <<>>
    /\ cleanRet = <<>>

\* DmarcParser::parse($raw) / parseDmarc(raw)
Parse ==
    /\ pc = "parse"
    /\ parseRet' = IF impl = "php"
                   THEN DmarcParser_parse(parseArg)
                   ELSE parseDmarc(parseArg)
    /\ pc' = "parsed"
    /\ UNCHANGED <<impl, checks, required, raised, rcVars, ckVars, adVars,
                   parseArg, cleanArg, cleanRet>>

NextParse == Parse

SpecParse == InitParse /\ [][NextParse]_vars

\* the record is a DMARC record whose p, in lower case, is a policy
PolicyGiven ==
    /\ StartsWith(trim(parseArg), <<"v", "=", "DMARC1">>)
    /\ strtolower(Tag(parseArg, "p")) \in Policies

\* C21: a record whose p is none, quarantine or reject in any letter case
\* parses, with p in lower case; a record whose p is absent or another
\* word gives the absent result.
C21_PolicyCaseInsensitive ==
    pc = "parsed" =>
        IF PolicyGiven
        THEN /\ parseRet.valid
             /\ parseRet.p = strtolower(Tag(parseArg, "p"))
        ELSE ~parseRet.valid

\* the pct value is made of decimal digits only and is a number of 0..100
PctGiven ==
    /\ Len(Tag(parseArg, "pct")) = 1
    /\ Tag(parseArg, "pct")[1] \in DOMAIN DigitStrings
    /\ DigitStrings[Tag(parseArg, "pct")[1]] \in 0..100

\* C22: the parsed record has a pct exactly when the pct value is made of
\* decimal digits only and is a number of 0..100, and then pct is that
\* number; whatever the pct value is, a record with a policy in lower case
\* parses.
C22_PctRange ==
    pc = "parsed" =>
        /\ (PolicyGiven /\ Tag(parseArg, "p") \in Policies) => parseRet.valid
        /\ parseRet.valid =>
               IF PctGiven
               THEN parseRet.pct =
                        SomeNum(DigitStrings[Tag(parseArg, "pct")[1]])
               ELSE parseRet.pct = None

(***************************************************************************)
(* The domain normalizer on its own: Domain::clean and cleanDomain         *)
(***************************************************************************)
\* end(explode('@', $domain)) / domain.split('@').pop()
AfterLastAt(d) == LET parts == explode("@", d) IN parts[Len(parts)]

\* mutant: what follows the first "/" is kept
BeforeSlash_kept(d) == d

\* explode('/', $domain, 2)[0] / domain.split('/')[0]
BeforeSlash(d) == explode("/", d)[1]

\* parse_url($domain, PHP_URL_HOST) / new URL(domain).hostname for a text
\* with one "://": the text from there to the next ":", "/", "?" or "#"
\* when one word, the scheme, stands before the "://"; <<>> when the text
\* does not parse (null or false; new URL throws)
UrlHost(d) ==
    LET k == IndexOf(d, "://")
        rest == SubSeq(d, k + 1, Len(d))
        stops == { j \in 1..Len(rest) : rest[j] \in {":", "/", "?", "#"} }
        end == IF stops = {}
               THEN Len(rest)
               ELSE (CHOOSE j \in stops : \A i \in stops : j <= i) - 1
    IN  IF k = 2 /\ d[1] \notin {" ", ".", "/", ":"}
        THEN SubSeq(rest, 1, end)
        ELSE <<>>

\* the host of a text with "://": the parsed host or, when parsing fails,
\* what stands between the "://" and the next "/"
HostOfUrl(d) ==
    IF UrlHost(d) # <<>>
    THEN UrlHost(d)
    ELSE BeforeSlash(explode("://", d)[2])

\* str_starts_with($domain, 'www.') ? substr($domain, 4) : $domain
StripWww(d) ==
    IF StartsWith(d, <<"www", ".">>) THEN SubSeq(d, 3, Len(d)) ELSE d

\* the steps Domain::clean and cleanDomain share, up to the path removal
HostPart(input) ==
    LET lowered == strtolower(trim(input))
        noUser == IF Contains(lowered, "@") THEN AfterLastAt(lowered)
                  ELSE lowered
        host == IF Contains(noUser, "://") THEN HostOfUrl(noUser) ELSE noUser
    IN  BeforeSlash(host)

\* Domain::clean: rtrim($domain, '.') drops every trailing dot
Domain_clean(input) == StripWww(rtrimDots(HostPart(input)))

\* cleanDomain: domain.slice(0, -1) drops one trailing dot
cleanDomain(input) == StripWww(StripDot(HostPart(input)))

\* what stands before the host in the inputs: nothing, a blank, the local
\* part of an address (also with a blank after the @), a scheme, a scheme
\* separator without scheme, a scheme with userinfo
Leads ==
    { <<>>, <<" ">>, <<"user", "@">>, <<"user", "@", " ">>,
      <<"HTTPS", "://">>, <<"://">>, <<"https", "://", "user", "@">> }

Hosts ==
    { w \o h : w \in { <<>>, <<"www", ".">>, <<"WWW", ".">> },
               h \in { <<"example", ".", "com">>, <<"EXAMPLE", ".", "COM">>,
                       <<"other", ".", "example", ".", "com">> } }

\* what stands after the host: nothing, one or two dots, a path, a port
\* and a path, a blank
Trails ==
    { <<>>, <<".">>, <<".", ".">>, <<"/", "path">>, <<".", "/", "path">>,
      <<":", "8080", "/", "path">>, <<" ">>, <<" ", "/", "path">> }

\* the inputs; a URL is given without blanks and without doubled dots
CleanInputs ==
    { l \o h \o t : l \in Leads, h \in Hosts, t \in Trails }
    \ { l \o h \o t : l \in { <<"HTTPS", "://">>, <<"://">> }, h \in Hosts,
                     t \in { <<".", ".">>, <<" ">>, <<" ", "/", "path">> } }

InitClean ==
    /\ impl \in {"php", "ts"}
    /\ checks = [s \in {"ns", "mx", "spf", "dkim", "dmarc"} |->
                    StatusOnly("pending")]
    /\ pc = "clean"
    /\ required = <<>>
    /\ raised = ""
    /\ ReconcileIdle
    /\ CheckIdle
    /\ AdapterIdle
    /\ parseArg = <<>>
    /\ parseRet = [valid |-> FALSE]
    /\ cleanArg \in CleanInputs
    /\ cleanRet = <<>>

\* Domain::clean($input) / cleanDomain(input)
Clean ==
    /\ pc = "clean"
    /\ cleanRet' = IF impl = "php"
                   THEN Domain_clean(cleanArg)
                   ELSE cleanDomain(cleanArg)
    /\ pc' = "cleaned"
    /\ UNCHANGED <<impl, checks, required, raised, rcVars, ckVars, adVars,
                   parseArg, parseRet, cleanArg>>

NextClean == Clean

SpecClean == InitClean /\ [][NextClean]_vars

\* the text is in lower case and has no scheme separator, "@" or "/"
BareHost(d) ==
    /\ d = strtolower(d)
    /\ \A k \in 1..Len(d) : d[k] \notin {"://", "@", "/"}

\* the text has no blank at either end and no dot at its end
Trimmed(d) ==
    Len(d) > 0 => (d[1] # " " /\ d[Len(d)] \notin {" ", "."})

Tidy(input) ==
    LET t == trim(input) IN
    /\ \A k \in 1..Len(t) : t[k] # " "
    /\ \A k \in 1..(Len(t) - 1) : ~(t[k] = "." /\ t[k + 1] = ".")

Held0 ==
    UNION { { provider0[n][j] : j \in 1..Len(provider0[n]) } :
            n \in DOMAIN provider0 }

\* record r has the type and value of target t, up to letter case
SameUpToCase(r, t) ==
    /\ UpperTok(r.type) = t.type
    /\ strtolower(r.value) = strtolower(t.value)

Count(x, s) == Cardinality({ n \in 1..Len(s) : s[n] = x })

\* C25: in every completed run each of the three targets is once in
\* created or once in skipped, never in both, and created and skipped hold
\* nothing else.
C25_CreatedOrSkipped ==
    pc = "done" =>
        /\ \A k \in TargetIndex :
               Count(Targets[k], created) + Count(Targets[k], skipped) = 1
        /\ Len(created) + Len(skipped) = Len(Targets)

C25_Witness ==
    /\ pc = "done"
    /\ Len(created) = 2
    /\ Len(skipped) = 1
    /\ Len(required) = 3

\* the calls of the run with the operation, in the order made
CallsOf(op) == LET Is(x) == x.op = op IN SelectSeq(calls, Is)

\* C28: in every completed run deleted lists the records deleteRecord was
\* called on, created the targets createRecord was called for, updated the
\* records the updateRecord calls returned, each once and in the order of
\* the calls, and getRecords was called once for each unmet target and for
\* no other.
C28_ResultReportsCalls ==
    pc = "done" =>
        /\ [n \in 1..Len(CallsOf("deleteRecord")) |->
               CallsOf("deleteRecord")[n].id]
               = [n \in 1..Len(deleted) |-> deleted[n].id]
        /\ \A m, n \in 1..Len(deleted) : deleted[m].id = deleted[n].id => m = n
        /\ [n \in 1..Len(CallsOf("createRecord")) |->
               CallsOf("createRecord")[n].name]
               = [n \in 1..Len(created) |-> created[n].name]
        /\ \A m, n \in 1..Len(created) : created[m] = created[n] => m = n
        /\ [n \in 1..Len(CallsOf("updateRecord")) |->
               CallsOf("updateRecord")[n].id]
               = [n \in 1..Len(updated) |-> updated[n].id]
        /\ \A n \in 1..Len(updated) :
               HeldWithId(updated[n].id) = {updated[n]}
        /\ \A k \in TargetIndex :
               Cardinality({ n \in 1..Len(calls) :
                               /\ calls[n].op = "getRecords"
                               /\ calls[n].name = Targets[k].name })
                   = IF Unmet(Targets[k]) THEN 1 ELSE 0

C28_Witness ==
    /\ pc = "done"
    /\ run = 1
    /\ Len(deleted) = 2
    /\ deleted[1].name = deleted[2].name
    /\ Len(created) = 3
    /\ Len(CallsOf("getRecords")) = 3

\* what a lookup of the type at the name answers when DNS serves exactly
\* the records the provider holds there
Served(name, type) ==
    LET OfType(r) == UpperTok(r.type) = type
        recs == SelectSeq(provider[name], OfType)
    IN  IF Len(recs) = 0
        THEN NoRecords(impl)
        ELSE [err |-> "",
              recs |-> [k \in 1..Len(recs) |->
                          IF type = "TXT"
                          THEN [chunks |-> <<recs[k].value>>]
                          ELSE [target |-> recs[k].value]]]

\* the statuses a check of the implementation then reports
FreshCheck ==
    LET mx == Served(sendingDomain, "MX")
        cname == Served(sendingDomain, "CNAME")
        txt == Served(sendingDomain, "TXT")
        dkim == Served(dkimDomain, "CNAME")
        dmarc == Served(dmarcDomain, "TXT")
    IN  IF impl = "php"
        THEN [ns |-> checks.ns, mx |-> PhpCheckMx(mx, cname),
              spf |-> PhpCheckSpf(cname, txt), dkim |-> PhpCheckDkim(dkim),
              dmarc |-> PhpCheckDmarc(dmarc)]
        ELSE [ns |-> checks.ns, mx |-> TsCheckMx(mx, cname),
              spf |-> TsCheckSpf(cname, txt), dkim |-> TsCheckDkim(dkim),
              dmarc |-> TsCheckDmarc(dmarc)]

\* C26, for the runs in which every target was unmet: after the run has
\* completed, a check that is answered with exactly the records the
\* provider holds at the target names reports mx, spf, dkim and dmarc as
\* pass, and the required set filtered by it is empty.
C26_CheckAgrees ==
    (pc = "done" /\ \A k \in TargetIndex : Unmet(Targets[k])) =>
        /\ AllPassedOf(FreshCheck)
        /\ RequiredOf(impl, Domain, FreshCheck) = <<>>

\* C27: a run made, with the same check result, against the provider as a
\* completed run left it makes no createRecord and no deleteRecord call and
\* has created and deleted empty, whatever the provider held before the
\* first run.
C27_RerunSafe ==
    run = 2 =>
        /\ \A n \in 1..Len(calls) :
               calls[n].op \notin {"createRecord", "deleteRecord"}
        /\ created = <<>>
        /\ deleted = <<>>
        /\ pc = "done" => \A k \in TargetIndex : Count(Targets[k], skipped) = 1

C27_Witness ==
    /\ run = 2
    /\ pc = "done"
    /\ Len(CallsOf("getRecords")) = 3
    /\ nextId = 3
    /\ \E k \in TargetIndex : Len(provider[Targets[k].name]) = 2


(***************************************************************************)
(* Claims on the order of the warnings of a check run                      *)
(***************************************************************************)
\* the codes analyzeDmarc gives its warnings
AnalysisCodes ==
    {"STRICT_SPF_ALIGNMENT", "STRICT_DKIM_ALIGNMENT", "EXISTING_DMARC_POLICY"}

\* the codes of the two CNAME conflict detections
ConflictCodes == {"CNAME_CONFLICT_MX_SPF", "CNAME_CONFLICT_DKIM"}

\* C29: the order of the warnings of a check run does not depend on the
\* order in which the lookups complete: CNAME_CONFLICT_MX_SPF always stands
\* before CNAME_CONFLICT_DKIM, and both stand before the warnings of the
\* DMARC analysis.
C29_WarningOrder ==
    \A i, j \in 1..Len(warnings) :
        i < j =>
            /\ ~(/\ warnings[i].code = "CNAME_CONFLICT_DKIM"
                 /\ warnings[j].code = "CNAME_CONFLICT_MX_SPF")
            /\ ~(/\ warnings[i].code \in AnalysisCodes
                 /\ warnings[j].code \in ConflictCodes)


(***************************************************************************)
(* Claims on a failed zone / domain lookup of an adapter                   *)
(***************************************************************************)
\* the calls that waited, or wait, on lookup k
WaitedOn(k) == { c \in Callers : callers[c].on = k }

\* C30: when the zone / domain lookup of an adapter fails, every call that
\* waited on it gets the error and none goes on with an id, nothing is kept
\* (no id, no name, no promise), and a lookup made after it is a new request
\* started by a later call; once a lookup has succeeded no further lookup is
\* made.
C30_FailedLookupNotCached ==
    (pc = "adapter" /\ adapter.zoneId = "") =>
        /\ lookups = Len(promises)
        /\ \A k \in 1..Len(promises) :
               /\ WaitedOn(k) # {}
               /\ promises[k].state = "rejected" =>
                      /\ \A c \in WaitedOn(k) :
                             /\ callers[c].pc \in {"zone", "failed"}
                             /\ callers[c].zone = ""
                      /\ zoneIdPromise # k
               /\ promises[k].state = "fulfilled" =>
                      /\ k = Len(promises)
                      /\ resolvedZoneId = promises[k].value
               /\ k < Len(promises) => promises[k].state = "rejected"
        /\ (\A k \in 1..Len(promises) : promises[k].state # "fulfilled")
               => (resolvedZoneId = "" /\ resolvedDomainName = <<>>)
        /\ zoneIdPromise \in {0, Len(promises)}
        /\ (zoneIdPromise = 0 /\ promises # <<>>)
               => promises[Len(promises)].state = "rejected"

C30_Witness ==
    /\ pc = "adapter"
    /\ adapter = [kind |-> "hetzner", zoneId |-> "", domain |-> TRUE]
    /\ lookups = 2
    /\ promises = << [state |-> "rejected", value |-> ""],
                     [state |-> "fulfilled", value |-> "z1"] >>
    /\ callers[1] = [pc |-> "failed", on |-> 1, zone |-> ""]
    /\ callers[2] = [pc |-> "failed", on |-> 1, zone |-> ""]
    /\ callers[3] = [pc |-> "records", on |-> 2, zone |-> "z1"]

====
